---------------------------- MODULE Spec2Model ----------------------------
(***************************************************************************)
(* A model of the graph/optimisation engine of the ridesharing repository: *)
(* the Hungarian (Munkres) assignment solver, Dijkstra's shortest paths,   *)
(* Kruskal's minimum spanning forest with its union-find, and the cost     *)
(* matrix builder with the naive baseline; and of the React side that    *)
(* shows it: the App effect that copies the results of useGraph into the   *)
(* AppContext state, the sliders of ControlPanel, and useDebounce.         *)
(*                                                                         *)
(* Costs and weights are JavaScript numbers in the source; the model uses  *)
(* naturals, and the value Infinity for the source's +Infinity.            *)
(***************************************************************************)
EXTENDS Integers, Sequences, FiniteSets, TLC

VARIABLES
    \* ---- hungarian(costMatrix) ----
    hpc,            \* "idle" | "entry" | "loop" | "done": position in hungarian
    costMatrix,     \* the argument: [m |-> rows, n |-> columns, cell |-> [i -> [j -> cost]]]
    matrix,         \* the padded, reduced N x N working matrix
    masks,          \* 0 = none, 1 = starred, 2 = primed
    rowCover,
    colCover,
    pathStart,      \* null or [row |-> i, col |-> j]
    step,           \* the switch variable of the loop: 0, 1, 2, 3, 6
    assignments,    \* result: sequence of [driver |-> i, passenger |-> j]
    totalCost,      \* result
    \* ---- dijkstra(graph, startNode) ----
    dpc,            \* "idle" | "entry" | "loop" | "done": position in dijkstra
    graph,          \* the argument: [nodeId -> sequence of [neighborId, weight]]
    startNode,      \* the argument
    distances,      \* result: a map, defined on the keys written so far
    predecessors,   \* result: a map, defined on the keys written so far
    visited,        \* the set of node ids whose visited[...] is true
    priorityQueue,  \* sequence of [nodeId, distance]
    \* ---- kruskal(nodes, edges) ----
    kpc,            \* "idle" | "entry" | "loop" | "done": position in kruskal
    nodes,          \* the argument: the node ids (duplicate-free)
    edges,          \* the argument: sequence of [u, v, weight]
    sortedEdges,    \* the sorted copy of edges
    edgeIdx,        \* the position of the for-of loop in sortedEdges
    parent,         \* unionFind.parent: a map, defined on the registered ids
    rank,           \* unionFind.rank
    mstEdges,       \* result
    totalWeight,    \* result
    \* ---- a UnionFind used on its own (parent and rank above are its fields) ----
    unions,         \* history: the pairs {a, b} of two ids union was called with so far
    ufReturn,       \* the last call on the UnionFind and what it returned
    \* ---- buildCostMatrix(drivers, passengers, options) and
    \*      sumNaiveAssignments(drivers, passengers, method) ----
    drivers,        \* the argument: sequence of [id, lat, lng]
    passengers,     \* the argument: sequence of [id, lat, lng]
    options,        \* the argument of buildCostMatrix: [method, timePerKm]
    method,         \* the argument of sumNaiveAssignments
    called,         \* "caller" while a caller holds the nodes, and the functions
                    \* that have returned
    built,          \* result of buildCostMatrix: [matrix, pairs]
    naiveTotal,     \* result of sumNaiveAssignments
    \* ---- AppContent inside AppProvider ----
    apc,            \* "idle" | "mounted"
    appState,       \* the state of useReducer(appReducer, initialState): the
                    \* result fields of AppState
    useGraphResult, \* what useGraph returns (the const graph of AppContent): the
                    \* result fields and lastUpdated
    effectDeps,     \* the dependency list [graph.lastUpdated] the second effect
                    \* last ran with; <<>> before its first run
    now,            \* Date.now()
    \* ---- ControlPanel ----
    ppc,            \* "idle" | "mounted"
    driversCount,   \* the prop
    passengersCount, \* the prop
    internalValue,  \* per slider: the state of useDebouncedSlider
    debounceTimeout, \* per slider: the value of the pending timer, 0 when none
    lastEvent,      \* the last handler that ran: [op, slider, before, committed]
    \* ---- useDebounce(value, delay) ----
    tpc,            \* "idle" | "mounted"
    value,          \* the argument of the latest render
    delay,          \* the argument of the latest render
    debouncedValue, \* the state the hook returns
    timers,         \* the pending timers: [value, left]
    sinceChange,    \* time since value or delay last changed
    changes         \* how often value or delay changed so far

hvars == <<hpc, costMatrix, matrix, masks, rowCover, colCover, pathStart, step,
           assignments, totalCost>>

dvars == <<dpc, graph, startNode, distances, predecessors, visited, priorityQueue>>

kvars == <<kpc, nodes, edges, sortedEdges, edgeIdx, parent, rank, mstEdges, totalWeight>>

uvars == <<unions, ufReturn>>

cvars == <<drivers, passengers, options, method, called, built, naiveTotal>>

avars == <<apc, appState, useGraphResult, effectDeps, now>>

pvars == <<ppc, driversCount, passengersCount, internalValue, debounceTimeout, lastEvent>>

tvars == <<tpc, value, delay, debouncedValue, timers, sinceChange, changes>>

\* the React side
rvars == <<avars, pvars, tvars>>

\* the engine
evars == <<hvars, dvars, kvars, uvars, cvars>>

vars == <<evars, rvars>>

----------------------------------------------------------------------------
(* Bounds of the model *)

\* largest number of rows and of columns of a cost matrix
MaxDim == 3

\* the costs of a cost matrix cell: three values in a matrix of up to nine cells,
\* two in a larger one (the larger matrices add size, not more values)
CostValues(m, n) == IF m * n <= 9 THEN {0, 1, 2} ELSE {0, 1}

\* largest number of drivers and of passengers handed to the cost functions
MaxNodes == 2

\* largest number of adjacency entries of a dijkstra graph, all lists together
MaxGraphEdges == 4

\* the weights of the adjacency entries of a graph with L entries
EntryWeights(L) == IF L <= 4 THEN {0, 1, 2} ELSE {0, 1}

\* largest number of edges handed to kruskal
MaxEdges == 3

\* the weights of the edges of an edge list of length L
EdgeWeights(L) == IF L <= 3 THEN {0, 1, 2} ELSE {0, 1}

\* the latest value of Date.now() in the model
MaxClock == 3

\* the props maxDrivers and maxPassengers of ControlPanel (12 and 30 by default)
maxDrivers == 2

maxPassengers == 3

\* the largest delay handed to useDebounce, in ticks of the clock
MaxDelay == 2

\* how often the arguments of useDebounce change
MaxChanges == 3

\* the node ids of the dijkstra graphs of the model, in the order the model lists them
NodeOrder == <<"A", "B", "C", "D">>

NodeIds == { NodeOrder[k] : k \in DOMAIN NodeOrder }

\* the node ids handed to kruskal, in the order the model lists them
IdOrder == <<"A", "B", "C">>

KruskalIds == { IdOrder[k] : k \in DOMAIN IdOrder }

----------------------------------------------------------------------------
(* Shared helpers *)

\* the null of pathStart ({ row, col } | null)
null == [row |-> -1, col |-> -1]

\* the source's +Infinity: larger than every finite value the model computes
Infinity == 1000000

isFinite(x) == x # Infinity

\* x + d and x - d on JavaScript numbers with x possibly +Infinity, d finite
Plus(x, d) == IF isFinite(x) THEN x + d ELSE Infinity

Minus(x, d) == IF isFinite(x) THEN x - d ELSE Infinity

Max2(a, b) == IF a >= b THEN a ELSE b

Min2(a, b) == IF a <= b THEN a ELSE b

\* Math.min(...S): Infinity for no arguments
MathMin(S) == IF S = {} THEN Infinity ELSE CHOOSE x \in S : \A y \in S : x <= y

\* const x = e; F(x): e is evaluated once, before F uses it
Const(e, F(_)) == CHOOSE r \in { F(x) : x \in {e} } : TRUE

RECURSIVE SumSeq(_)
SumSeq(s) == IF s = <<>> THEN 0 ELSE Head(s) + SumSeq(Tail(s))

----------------------------------------------------------------------------
(* hungarian *)

\* the cost matrices the model feeds to hungarian: rectangular, m rows of n cells
CostMatrices(m, n) ==
    [m : {m}, n : {n}, cell : [0..(m-1) -> [0..(n-1) -> CostValues(m, n)]]]

\* const n = Math.max(costMatrix.length, costMatrix[0]?.length || 0)
PadSize(cm) == Max2(cm.m, cm.n)

\* a variant that copies costMatrix[j][i] into matrix[i][j] where both exist
PaddedTransposed(cm) ==
    [i \in 0..(PadSize(cm)-1) |->
        [j \in 0..(PadSize(cm)-1) |->
            IF i < cm.m /\ j < cm.n
            THEN (IF j < cm.m /\ i < cm.n THEN cm.cell[j][i] ELSE cm.cell[i][j])
            ELSE Infinity]]

\* Array(n) of Array(n).fill(Infinity), then the copy of the argument's cells
Padded(cm) ==
    [i \in 0..(PadSize(cm)-1) |->
        [j \in 0..(PadSize(cm)-1) |->
            IF i < cm.m /\ j < cm.n THEN cm.cell[i][j] ELSE Infinity]]

\* Step 1 of the prologue: subtract each row's finite minimum from its finite cells
RowMin(mx, i) == MathMin({ mx[i][j] : j \in DOMAIN mx[i] } \ {Infinity})

SubtractRowMinima(mx) ==
    [i \in DOMAIN mx |->
        [j \in DOMAIN mx[i] |->
            IF isFinite(RowMin(mx, i)) /\ isFinite(mx[i][j])
            THEN mx[i][j] - RowMin(mx, i) ELSE mx[i][j]]]

\* Step 2 of the prologue: subtract each column's finite minimum from its finite cells
ColMin(mx, j) == MathMin({ mx[i][j] : i \in DOMAIN mx } \ {Infinity})

SubtractColMinima(mx) ==
    [i \in DOMAIN mx |->
        [j \in DOMAIN mx[i] |->
            IF isFinite(ColMin(mx, j)) /\ isFinite(mx[i][j])
            THEN mx[i][j] - ColMin(mx, j) ELSE mx[i][j]]]

\* Initial starring: the row-major scan over cells k = i*N + j, starring a zero
\* whose row and column hold no star yet (rowCover/colCover are its scratch marks)
RECURSIVE StarZeros(_, _, _, _, _, _)
StarZeros(mx, N, k, mk, rc, cc) ==
    IF k >= N * N THEN mk
    ELSE LET i == k \div N
             j == k % N
         IN IF mx[i][j] = 0 /\ ~rc[i] /\ ~cc[j]
            THEN StarZeros(mx, N, k + 1,
                           [mk EXCEPT ![i][j] = 1],
                           [rc EXCEPT ![i] = TRUE],
                           [cc EXCEPT ![j] = TRUE])
            ELSE StarZeros(mx, N, k + 1, mk, rc, cc)

AllFalse(N) == [i \in 0..(N-1) |-> FALSE]

NoMasks(N) == [i \in 0..(N-1) |-> [j \in 0..(N-1) |-> 0]]

\* a variant that stars every zero
InitialStarsOnEveryZero(mx, N) ==
    [i \in 0..(N-1) |-> [j \in 0..(N-1) |-> IF mx[i][j] = 0 THEN 1 ELSE 0]]

InitialStars(mx, N) == StarZeros(mx, N, 0, NoMasks(N), AllFalse(N), AllFalse(N))

\* a variant that forgets the column covers
ZerosInUncoveredRows(mx, rc, cc) ==
    { <<i, j>> \in (DOMAIN mx) \X (DOMAIN mx) : ~rc[i] /\ mx[i][j] = 0 }

\* findUncoveredZero: the first uncovered zero in row-major order, or null
UncoveredZeros(mx, rc, cc) ==
    { <<i, j>> \in (DOMAIN mx) \X (DOMAIN mx) : ~rc[i] /\ mx[i][j] = 0 /\ ~cc[j] }

RowMajorLeq(p, q) == p[1] < q[1] \/ (p[1] = q[1] /\ p[2] <= q[2])

findUncoveredZero(mx, rc, cc) ==
    IF UncoveredZeros(mx, rc, cc) = {} THEN null
    ELSE LET z == CHOOSE p \in UncoveredZeros(mx, rc, cc) :
                      \A q \in UncoveredZeros(mx, rc, cc) : RowMajorLeq(p, q)
         IN [row |-> z[1], col |-> z[2]]

\* masks[row].indexOf(v): the first column holding v, or -1
IndexInRow(mk, row, v) ==
    IF \E j \in DOMAIN mk[row] : mk[row][j] = v
    THEN CHOOSE j \in DOMAIN mk[row] :
            mk[row][j] = v /\ \A k \in DOMAIN mk[row] : mk[row][k] = v => j <= k
    ELSE -1

findStarInRow(mk, row) == IndexInRow(mk, row, 1)

findPrimeInRow(mk, row) == IndexInRow(mk, row, 2)

\* the first row whose cell in column col is starred, or -1; a column outside
\* the array (-1) holds nothing
findStarInCol(mk, col) ==
    IF col \in DOMAIN mk /\ \E i \in DOMAIN mk : mk[i][col] = 1
    THEN CHOOSE i \in DOMAIN mk :
            mk[i][col] = 1 /\ \A k \in DOMAIN mk : mk[k][col] = 1 => i <= k
    ELSE -1

\* findAugmentingPath: start, then (star in the column, prime in that star's row)*
RECURSIVE AugmentFrom(_, _, _)
AugmentFrom(mk, path, currentCol) ==
    Const(findStarInCol(mk, currentCol), LAMBDA starRow :
        IF starRow = -1 THEN path
        ELSE Const(findPrimeInRow(mk, starRow), LAMBDA primeCol :
                AugmentFrom(mk,
                            path \o << [row |-> starRow, col |-> currentCol],
                                       [row |-> starRow, col |-> primeCol] >>,
                            primeCol)))

findAugmentingPath(mk, start) == AugmentFrom(mk, <<start>>, start.col)

\* path.forEach: a starred cell of the path loses its star, any other gets one.
\* A path cell with col = -1 writes a property that no array read ever sees.
\* a variant that stars every cell of the path and unstars none
FlipCellStarOnly(mk, c) ==
    IF c.col \in DOMAIN mk[c.row] THEN [mk EXCEPT ![c.row][c.col] = 1] ELSE mk

\* masks[row][col] = masks[row][col] === 1 ? 0 : 1
FlipCell(mk, c) ==
    IF c.col \in DOMAIN mk[c.row]
    THEN [mk EXCEPT ![c.row][c.col] = IF mk[c.row][c.col] = 1 THEN 0 ELSE 1]
    ELSE mk

RECURSIVE FlipPath(_, _)
FlipPath(mk, path) ==
    IF path = <<>> THEN mk
    ELSE Const(FlipCell(mk, Head(path)), LAMBDA flipped : FlipPath(flipped, Tail(path)))

\* a variant that leaves the primes in place
KeepPrimes(mk) == mk

ClearPrimes(mk) ==
    [i \in DOMAIN mk |-> [j \in DOMAIN mk[i] |-> IF mk[i][j] = 2 THEN 0 ELSE mk[i][j]]]

\* a variant that never finds a finite value
findMinGivesUp(mx, rc, cc) == Infinity

\* a variant that returns 0 when no uncovered cell is finite
findMinOrZero(mx, rc, cc) ==
    Const(MathMin({ mx[i][j] : <<i, j>> \in
                       { p \in (DOMAIN mx) \X (DOMAIN mx) : ~rc[p[1]] /\ ~cc[p[2]] } }),
          LAMBDA least : IF isFinite(least) THEN least ELSE 0)

\* a variant that looks at every cell, covered or not
findMinAnyValue(mx, rc, cc) ==
    MathMin({ mx[i][j] : <<i, j>> \in (DOMAIN mx) \X (DOMAIN mx) })

\* findMinUncoveredValue: Infinity when no uncovered cell is finite
findMinUncoveredValue(mx, rc, cc) ==
    MathMin({ mx[i][j] : <<i, j>> \in
                 { p \in (DOMAIN mx) \X (DOMAIN mx) : ~rc[p[1]] /\ ~cc[p[2]] } })

\* a variant that forgets the += on the covered rows
AdjustCostsNoAdd(mx, rc, cc, minVal) ==
    [i \in DOMAIN mx |->
        [j \in DOMAIN mx[i] |->
            IF ~rc[i] /\ ~cc[j] THEN Minus(mx[i][j], minVal) ELSE mx[i][j]]]

\* case 6: += minVal on a covered row, then -= minVal on an uncovered column
AdjustCosts(mx, rc, cc, minVal) ==
    [i \in DOMAIN mx |->
        [j \in DOMAIN mx[i] |->
            LET a == IF rc[i] THEN Plus(mx[i][j], minVal) ELSE mx[i][j]
            IN IF ~cc[j] THEN Minus(a, minVal) ELSE a]]

\* a variant that reads the working matrix instead of the copy of the argument
AssignedCostReduced(cm, mx, i, j) == mx[i][j]

\* the cost a starred cell adds to totalCost: the argument's cell before any reduction
AssignedCost(cm, mx, i, j) == cm.cell[i][j]

\* the extraction loop: the starred cells inside the argument's bounds, row-major
RECURSIVE ExtractFrom(_, _, _, _)
ExtractFrom(cm, mx, mk, k) ==
    IF k >= cm.m * cm.n THEN [assignments |-> <<>>, costs |-> <<>>]
    ELSE LET i == k \div cm.n
             j == k % cm.n
             rest == ExtractFrom(cm, mx, mk, k + 1)
         IN IF mk[i][j] = 1
            THEN [assignments |-> <<[driver |-> i, passenger |-> j]>> \o rest.assignments,
                  costs |-> <<AssignedCost(cm, mx, i, j)>> \o rest.costs]
            ELSE rest

\* hungarian is not running
HIdle ==
    /\ hpc = "idle"
    /\ costMatrix = [m |-> 0, n |-> 0, cell |-> <<>>]
    /\ matrix = <<>>
    /\ masks = <<>>
    /\ rowCover = <<>>
    /\ colCover = <<>>
    /\ pathStart = null
    /\ step = 1
    /\ assignments = <<>>
    /\ totalCost = 0

HInit ==
    /\ hpc = "entry"
    /\ \E m \in 0..MaxDim : \E n \in 0..MaxDim :
          /\ m = 0 => n = 0      \* the column count is read from row 0
          /\ costMatrix \in CostMatrices(m, n)
    /\ matrix = <<>>
    /\ masks = <<>>
    /\ rowCover = <<>>
    /\ colCover = <<>>
    /\ pathStart = null
    /\ step = 1
    /\ assignments = <<>>
    /\ totalCost = 0

\* lines 16-66: pad, reduce rows then columns, star zeros, clear covers, step = 1
HPrepare ==
    /\ hpc = "entry"
    /\ UNCHANGED <<dvars, kvars, uvars, cvars, rvars>>
    /\ \E padded \in {Padded(costMatrix)} :
       \E rowReduced \in {SubtractRowMinima(padded)} :
       \E reduced \in {SubtractColMinima(rowReduced)} :
          /\ matrix' = reduced
          /\ masks' = InitialStars(reduced, PadSize(costMatrix))
    /\ rowCover' = AllFalse(PadSize(costMatrix))
    /\ colCover' = AllFalse(PadSize(costMatrix))
    /\ pathStart' = null
    /\ step' = 1
    /\ hpc' = "loop"
    /\ UNCHANGED <<costMatrix, assignments, totalCost>>

\* case 1: cover every column holding a star; all covered ends the loop
CoveredAfterStep1(mk) == [j \in DOMAIN mk |-> \E i \in DOMAIN mk : mk[i][j] = 1]

HStep1 ==
    /\ hpc = "loop"
    /\ UNCHANGED <<dvars, kvars, uvars, cvars, rvars>>
    /\ step = 1
    /\ colCover' = CoveredAfterStep1(masks)
    /\ step' = IF Cardinality({ j \in DOMAIN colCover' : colCover'[j] })
                    = PadSize(costMatrix)
               THEN 0 ELSE 2
    /\ UNCHANGED <<hpc, costMatrix, matrix, masks, rowCover, pathStart,
                   assignments, totalCost>>

\* case 2: prime an uncovered zero; cover its row if the row has a star, else augment
HStep2 ==
    /\ hpc = "loop"
    /\ UNCHANGED <<dvars, kvars, uvars, cvars, rvars>>
    /\ step = 2
    /\ LET zero == findUncoveredZero(matrix, rowCover, colCover)
       IN IF zero = null
          THEN /\ step' = 6
               /\ UNCHANGED <<masks, rowCover, colCover, pathStart>>
          ELSE LET mk == [masks EXCEPT ![zero.row][zero.col] = 2]
                   starCol == findStarInRow(mk, zero.row)
               IN /\ masks' = mk
                  /\ IF starCol # -1
                     THEN /\ rowCover' = [rowCover EXCEPT ![zero.row] = TRUE]
                          /\ colCover' = [colCover EXCEPT ![starCol] = FALSE]
                          /\ step' = 2
                          /\ UNCHANGED pathStart
                     ELSE /\ pathStart' = zero
                          /\ step' = 3
                          /\ UNCHANGED <<rowCover, colCover>>
    /\ UNCHANGED <<hpc, costMatrix, matrix, assignments, totalCost>>

\* case 3: flip the augmenting path, clear covers and primes
HStep3 ==
    /\ hpc = "loop"
    /\ UNCHANGED <<dvars, kvars, uvars, cvars, rvars>>
    /\ step = 3
    /\ \E path \in {findAugmentingPath(masks, pathStart)} :
          masks' = ClearPrimes(FlipPath(masks, path))
    /\ rowCover' = AllFalse(PadSize(costMatrix))
    /\ colCover' = AllFalse(PadSize(costMatrix))
    /\ step' = 1
    /\ UNCHANGED <<hpc, costMatrix, matrix, pathStart, assignments, totalCost>>

\* case 6: leave the loop when no uncovered cell is finite, else adjust the costs
HStep6 ==
    /\ hpc = "loop"
    /\ UNCHANGED <<dvars, kvars, uvars, cvars, rvars>>
    /\ step = 6
    /\ LET minVal == findMinUncoveredValue(matrix, rowCover, colCover)
       IN IF ~isFinite(minVal)
          THEN /\ step' = 0
               /\ UNCHANGED matrix
          ELSE /\ matrix' = AdjustCosts(matrix, rowCover, colCover, minVal)
               /\ step' = 2
    /\ UNCHANGED <<hpc, costMatrix, masks, rowCover, colCover, pathStart,
                   assignments, totalCost>>

\* lines 131-142: the loop has ended (step = 0); collect the stars and return
HReturn ==
    /\ hpc = "loop"
    /\ UNCHANGED <<dvars, kvars, uvars, cvars, rvars>>
    /\ step = 0
    /\ LET out == ExtractFrom(costMatrix, matrix, masks, 0)
       IN /\ assignments' = out.assignments
          /\ totalCost' = SumSeq(out.costs)
    /\ hpc' = "done"
    /\ UNCHANGED <<costMatrix, matrix, masks, rowCover, colCover, pathStart, step>>

HNext == HPrepare \/ HStep1 \/ HStep2 \/ HStep3 \/ HStep6 \/ HReturn

----------------------------------------------------------------------------
(* Maps and sorting shared by dijkstra and kruskal *)

\* a variant that writes v under every key of the map
PutUnderEveryKey(map, k, v) == [x \in (DOMAIN map) \cup {k} |-> v]

\* map[k] = v on a JavaScript object used as a map
Put(map, k, v) == [x \in (DOMAIN map) \cup {k} |-> IF x = k THEN v ELSE map[x]]

\* Array.prototype.sort with the comparator (a, b) => a[f] - b[f]: stable, ascending
RECURSIVE InsertByKey(_, _, _)
InsertByKey(t, e, f) ==
    IF t = <<>> THEN <<e>>
    ELSE IF Head(t)[f] <= e[f] THEN <<Head(t)>> \o InsertByKey(Tail(t), e, f)
    ELSE <<e>> \o t

RECURSIVE StableSort(_, _)
StableSort(s, f) ==
    IF s = <<>> THEN <<>>
    ELSE InsertByKey(StableSort(SubSeq(s, 1, Len(s) - 1), f), s[Len(s)], f)

----------------------------------------------------------------------------
(* dijkstra *)

\* predecessors[nodeId] = null
none == "null"

\* the ordered pairs u -> v of distinct nodes, in the model's order
Others(u) == SelectSeq(NodeOrder, LAMBDA v : v # u)

DirectedPairs ==
    [k \in 1..(Len(NodeOrder) * (Len(NodeOrder) - 1)) |->
        LET u == NodeOrder[((k - 1) \div (Len(NodeOrder) - 1)) + 1]
        IN [u |-> u, v |-> Others(u)[((k - 1) % (Len(NodeOrder) - 1)) + 1]]]

\* L distinct pairs, as their positions in DirectedPairs in ascending order
PairChoices(L) ==
    { p \in [1..L -> DOMAIN DirectedPairs] : \A i \in 1..(L - 1) : p[i] < p[i + 1] }

\* the graph with keys K whose adjacency lists hold the chosen pairs p with weights w
\* (a pair whose source is no key is left out)
GraphOf(K, p, w) ==
    [u \in K |->
        LET ks == SelectSeq([i \in DOMAIN p |-> i], LAMBDA i : DirectedPairs[p[i]].u = u)
        IN [x \in 1..Len(ks) |->
               [neighborId |-> DirectedPairs[p[ks[x]]].v, weight |-> w[ks[x]]]]]

\* the nodes that are the source of a chosen pair
SourcesOf(p) == { DirectedPairs[p[i]].u : i \in DOMAIN p }

\* a variant that leaves the queue in insertion order
UnsortedQueue(q) == q

\* priorityQueue.sort((a, b) => a.distance - b.distance)
SortedQueue(q) == StableSort(q, "distance")

\* a variant that also takes a path of equal length for an improvement
ImprovesOrTies(newDistance, dist, neighborId) ==
    neighborId \in DOMAIN dist /\ newDistance <= dist[neighborId]

\* newDistance < distances[neighborId]; a missing key reads undefined and the
\* comparison with undefined is false
Improves(newDistance, dist, neighborId) ==
    neighborId \in DOMAIN dist /\ newDistance < dist[neighborId]

\* the for-of loop over graph[currentNodeId]
RECURSIVE Relax(_, _, _)
Relax(adj, currentNodeId, st) ==
    IF adj = <<>> THEN st
    ELSE LET e == Head(adj)
             newDistance == st.distances[currentNodeId] + e.weight
         IN Relax(Tail(adj), currentNodeId,
                  IF Improves(newDistance, st.distances, e.neighborId)
                  THEN [distances |-> Put(st.distances, e.neighborId, newDistance),
                        predecessors |-> Put(st.predecessors, e.neighborId, currentNodeId),
                        priorityQueue |-> Append(st.priorityQueue,
                                                 [nodeId |-> e.neighborId,
                                                  distance |-> newDistance])]
                  ELSE st)

\* dijkstra is not running
DIdle ==
    /\ dpc = "idle"
    /\ graph = <<>>
    /\ startNode = none
    /\ distances = <<>>
    /\ predecessors = <<>>
    /\ visited = {}
    /\ priorityQueue = <<>>

DInit ==
    /\ dpc = "entry"
    /\ \E L \in 0..MaxGraphEdges : \E p \in PairChoices(L) :
       \E w \in [1..L -> EntryWeights(L)] :
          \* either every node has an entry, or only the nodes with a neighbour have
          \E K \in {NodeIds, SourcesOf(p)} : graph = GraphOf(K, p, w)
    \* the graphs above are closed under renaming nodes: one start stands for all
    /\ startNode = NodeOrder[1]
    /\ distances = <<>>
    /\ predecessors = <<>>
    /\ visited = {}
    /\ priorityQueue = <<>>

\* lines 18-31: Infinity and null for every key of graph, 0 for the start, and
\* the start pushed on the queue
DStart ==
    /\ dpc = "entry"
    /\ distances' = Put([k \in DOMAIN graph |-> Infinity], startNode, 0)
    /\ predecessors' = [k \in DOMAIN graph |-> none]
    /\ visited' = {}
    /\ priorityQueue' = << [nodeId |-> startNode, distance |-> 0] >>
    /\ dpc' = "loop"
    /\ UNCHANGED <<graph, startNode>>
    /\ UNCHANGED <<hvars, kvars, uvars, cvars, rvars>>

\* an iteration that extracts an entry of an already visited node: continue
DPopVisited ==
    /\ dpc = "loop"
    /\ priorityQueue # <<>>
    /\ LET q == SortedQueue(priorityQueue)
       IN /\ Head(q).nodeId \in visited
          /\ priorityQueue' = Tail(q)
    /\ UNCHANGED <<dpc, graph, startNode, distances, predecessors, visited>>
    /\ UNCHANGED <<hvars, kvars, uvars, cvars, rvars>>

\* an iteration that extracts an unvisited node: mark it, relax its adjacency list
\* (a node without an adjacency list is only marked)
DPopRelax ==
    /\ dpc = "loop"
    /\ priorityQueue # <<>>
    /\ LET q == SortedQueue(priorityQueue)
           currentNodeId == Head(q).nodeId
       IN /\ currentNodeId \notin visited
          /\ visited' = visited \cup {currentNodeId}
          /\ IF currentNodeId \notin DOMAIN graph
             THEN /\ priorityQueue' = Tail(q)
                  /\ UNCHANGED <<distances, predecessors>>
             ELSE LET st == Relax(graph[currentNodeId], currentNodeId,
                                  [distances |-> distances,
                                   predecessors |-> predecessors,
                                   priorityQueue |-> Tail(q)])
                  IN /\ distances' = st.distances
                     /\ predecessors' = st.predecessors
                     /\ priorityQueue' = st.priorityQueue
    /\ UNCHANGED <<dpc, graph, startNode>>
    /\ UNCHANGED <<hvars, kvars, uvars, cvars, rvars>>

\* the queue is empty: return { distances, predecessors }
DReturn ==
    /\ dpc = "loop"
    /\ priorityQueue = <<>>
    /\ dpc' = "done"
    /\ UNCHANGED <<graph, startNode, distances, predecessors, visited, priorityQueue>>
    /\ UNCHANGED <<hvars, kvars, uvars, cvars, rvars>>

DNext == DStart \/ DPopVisited \/ DPopRelax \/ DReturn

----------------------------------------------------------------------------
(* UnionFind and kruskal *)

\* new UnionFind(nodes)
UFNew(ids) == [parent |-> [x \in ids |-> x], rank |-> [x \in ids |-> 0]]

\* a variant that registers an unseen id with rank 1
RECURSIVE UFFindRegistersRankOne(_, _)
UFFindRegistersRankOne(uf, nodeId) ==
    LET reg == IF nodeId \notin DOMAIN uf.parent
               THEN [parent |-> Put(uf.parent, nodeId, nodeId),
                     rank |-> Put(uf.rank, nodeId, 1)]
               ELSE uf
    IN IF reg.parent[nodeId] = nodeId
       THEN [uf |-> reg, root |-> nodeId]
       ELSE LET r == UFFindRegistersRankOne(reg, reg.parent[nodeId])
            IN [uf |-> [r.uf EXCEPT !.parent[nodeId] = r.root], root |-> r.root]

\* a variant that returns the parent of nodeId, not the root above it
UFFindParentOnly(uf, nodeId) ==
    LET reg == IF nodeId \notin DOMAIN uf.parent
               THEN [parent |-> Put(uf.parent, nodeId, nodeId),
                     rank |-> Put(uf.rank, nodeId, 0)]
               ELSE uf
    IN [uf |-> reg, root |-> reg.parent[nodeId]]

\* a variant that returns the root and leaves the pointers on the path alone
RECURSIVE UFFindNoCompression(_, _)
UFFindNoCompression(uf, nodeId) ==
    LET reg == IF nodeId \notin DOMAIN uf.parent
               THEN [parent |-> Put(uf.parent, nodeId, nodeId),
                     rank |-> Put(uf.rank, nodeId, 0)]
               ELSE uf
    IN IF reg.parent[nodeId] = nodeId
       THEN [uf |-> reg, root |-> nodeId]
       ELSE [uf |-> reg, root |-> UFFindNoCompression(reg, reg.parent[nodeId]).root]

\* find(nodeId): registers an unseen id, returns the root, compresses the path
RECURSIVE UFFind(_, _)
UFFind(uf, nodeId) ==
    LET reg == IF nodeId \notin DOMAIN uf.parent
               THEN [parent |-> Put(uf.parent, nodeId, nodeId),
                     rank |-> Put(uf.rank, nodeId, 0)]
               ELSE uf
    IN IF reg.parent[nodeId] = nodeId
       THEN [uf |-> reg, root |-> nodeId]
       ELSE LET r == UFFind(reg, reg.parent[nodeId])
            IN [uf |-> [r.uf EXCEPT !.parent[nodeId] = r.root], root |-> r.root]

\* a variant that compares the two ids, not their roots
UFUnionComparesIds(uf, nodeA, nodeB) ==
    LET fa == UFFind(uf, nodeA)
        fb == UFFind(fa.uf, nodeB)
    IN IF nodeA # nodeB
       THEN [joined |-> TRUE, uf |-> [fb.uf EXCEPT !.parent[fb.root] = fa.root]]
       ELSE [joined |-> FALSE, uf |-> fb.uf]

\* a variant that hangs nodeB itself, not its root, under nodeA
UFUnionLinksNodes(uf, nodeA, nodeB) ==
    LET fa == UFFind(uf, nodeA)
        fb == UFFind(fa.uf, nodeB)
    IN IF fa.root # fb.root
       THEN [joined |-> TRUE, uf |-> [fb.uf EXCEPT !.parent[nodeB] = nodeA]]
       ELSE [joined |-> FALSE, uf |-> fb.uf]

\* a variant that reports a union also when both ids already share a root
UFUnionAlwaysTrue(uf, nodeA, nodeB) ==
    [joined |-> TRUE, uf |-> UFFind(UFFind(uf, nodeA).uf, nodeB).uf]

\* a variant that always hangs the root of nodeB under the root of nodeA, and
\* raises the rank on a tie
UFUnionIgnoresRank(uf, nodeA, nodeB) ==
    LET fa == UFFind(uf, nodeA)
        fb == UFFind(fa.uf, nodeB)
        u == fb.uf
    IN IF fa.root # fb.root
       THEN [joined |-> TRUE,
             uf |-> IF u.rank[fa.root] = u.rank[fb.root]
                    THEN [u EXCEPT !.parent[fb.root] = fa.root,
                                   !.rank[fa.root] = u.rank[fa.root] + 1]
                    ELSE [u EXCEPT !.parent[fb.root] = fa.root]]
       ELSE [joined |-> FALSE, uf |-> u]

\* union(nodeA, nodeB): by rank; true exactly when the two roots differed
UFUnion(uf, nodeA, nodeB) ==
    LET fa == UFFind(uf, nodeA)
        fb == UFFind(fa.uf, nodeB)
        rootA == fa.root
        rootB == fb.root
        u == fb.uf
    IN IF rootA # rootB
       THEN [joined |-> TRUE,
             uf |-> IF u.rank[rootA] > u.rank[rootB]
                    THEN [u EXCEPT !.parent[rootB] = rootA]
                    ELSE IF u.rank[rootA] < u.rank[rootB]
                    THEN [u EXCEPT !.parent[rootA] = rootB]
                    ELSE [u EXCEPT !.parent[rootB] = rootA,
                                   !.rank[rootA] = u.rank[rootA] + 1]]
       ELSE [joined |-> FALSE, uf |-> u]

\* a variant that keeps the edges in the caller's order
NotSorted(es) == es

\* [...edges].sort((a, b) => a.weight - b.weight)
SortedByWeight(es) == StableSort(es, "weight")

\* the edges of an edge list of length L: u not after v in the model's order
\* (self-loops included)
EdgeValues(L) ==
    { [u |-> IdOrder[t[1]], v |-> IdOrder[t[2]], weight |-> t[3]] :
        t \in { x \in (DOMAIN IdOrder) \X (DOMAIN IdOrder) \X EdgeWeights(L) :
                  x[1] <= x[2] } }

\* kruskal is not running
KIdle ==
    /\ kpc = "idle"
    /\ nodes = {}
    /\ edges = <<>>
    /\ sortedEdges = <<>>
    /\ edgeIdx = 1
    /\ parent = <<>>
    /\ rank = <<>>
    /\ mstEdges = <<>>
    /\ totalWeight = 0

KInit ==
    /\ kpc = "entry"
    /\ nodes \in SUBSET KruskalIds
    /\ \E L \in 0..MaxEdges : edges \in [1..L -> EdgeValues(L)]
    /\ sortedEdges = <<>>
    /\ edgeIdx = 1
    /\ parent = <<>>
    /\ rank = <<>>
    /\ mstEdges = <<>>
    /\ totalWeight = 0

\* lines 61-67: the sorted copy and the fresh UnionFind
KStart ==
    /\ kpc = "entry"
    /\ sortedEdges' = SortedByWeight(edges)
    /\ parent' = UFNew(nodes).parent
    /\ rank' = UFNew(nodes).rank
    /\ edgeIdx' = 1
    /\ mstEdges' = <<>>
    /\ totalWeight' = 0
    /\ kpc' = "loop"
    /\ UNCHANGED <<nodes, edges>>
    /\ UNCHANGED <<hvars, dvars, uvars, cvars, rvars>>

\* unionFind.union(u, v) on the loop's current edge
UnionOfCurrentEdge ==
    UFUnion([parent |-> parent, rank |-> rank],
            sortedEdges[edgeIdx].u, sortedEdges[edgeIdx].v)

\* one iteration whose union returns true: the edge is pushed and its weight added
KAccept ==
    /\ kpc = "loop"
    /\ edgeIdx <= Len(sortedEdges)
    /\ UnionOfCurrentEdge.joined
    /\ parent' = UnionOfCurrentEdge.uf.parent
    /\ rank' = UnionOfCurrentEdge.uf.rank
    /\ mstEdges' = Append(mstEdges, sortedEdges[edgeIdx])
    /\ totalWeight' = totalWeight + sortedEdges[edgeIdx].weight
    /\ edgeIdx' = edgeIdx + 1
    /\ UNCHANGED <<kpc, nodes, edges, sortedEdges>>
    /\ UNCHANGED <<hvars, dvars, uvars, cvars, rvars>>

\* one iteration whose union returns false: the edge is dropped
KReject ==
    /\ kpc = "loop"
    /\ edgeIdx <= Len(sortedEdges)
    /\ ~UnionOfCurrentEdge.joined
    /\ parent' = UnionOfCurrentEdge.uf.parent
    /\ rank' = UnionOfCurrentEdge.uf.rank
    /\ edgeIdx' = edgeIdx + 1
    /\ UNCHANGED <<kpc, nodes, edges, sortedEdges, mstEdges, totalWeight>>
    /\ UNCHANGED <<hvars, dvars, uvars, cvars, rvars>>

\* every edge is processed: return { mstEdges, totalWeight }
KReturn ==
    /\ kpc = "loop"
    /\ edgeIdx > Len(sortedEdges)
    /\ kpc' = "done"
    /\ UNCHANGED <<nodes, edges, sortedEdges, edgeIdx, parent, rank, mstEdges, totalWeight>>
    /\ UNCHANGED <<hvars, dvars, uvars, cvars, rvars>>

KNext == KStart \/ KAccept \/ KReject \/ KReturn

----------------------------------------------------------------------------
(* A UnionFind used on its own: any sequence of find and union calls *)

\* the node lists handed to the constructor: the first k ids, for every k
CtorLists == { { NodeOrder[i] : i \in 1..k } : k \in 0..Len(NodeOrder) }

\* no call was made on the UnionFind yet
NoCall == [op |-> "new", a |-> none, b |-> none, root |-> none, joined |-> FALSE]

\* there is no UnionFind outside kruskal
NoUnionFind == [op |-> "idle", a |-> none, b |-> none, root |-> none, joined |-> FALSE]

\* no UnionFind is used on its own
UIdle ==
    /\ unions = {}
    /\ ufReturn = NoUnionFind

\* new UnionFind(nodes), outside kruskal
UInit ==
    /\ kpc = "idle"
    /\ nodes \in CtorLists
    /\ edges = <<>>
    /\ sortedEdges = <<>>
    /\ edgeIdx = 1
    /\ parent = UFNew(nodes).parent
    /\ rank = UFNew(nodes).rank
    /\ mstEdges = <<>>
    /\ totalWeight = 0
    /\ unions = {}
    /\ ufReturn = NoCall

\* a call of find(nodeId)
UCallFind(nodeId) ==
    /\ ufReturn.op # "idle"
    /\ \E r \in {UFFind([parent |-> parent, rank |-> rank], nodeId)} :
          /\ parent' = r.uf.parent
          /\ rank' = r.uf.rank
          /\ ufReturn' = [op |-> "find", a |-> nodeId, b |-> nodeId,
                          root |-> r.root, joined |-> FALSE]
    /\ UNCHANGED <<kpc, nodes, edges, sortedEdges, edgeIdx, mstEdges, totalWeight, unions>>
    /\ UNCHANGED <<hvars, dvars, cvars, rvars>>

\* a call of union(nodeA, nodeB)
UCallUnion(nodeA, nodeB) ==
    /\ ufReturn.op # "idle"
    /\ \E r \in {UFUnion([parent |-> parent, rank |-> rank], nodeA, nodeB)} :
          /\ parent' = r.uf.parent
          /\ rank' = r.uf.rank
          /\ ufReturn' = [op |-> "union", a |-> nodeA, b |-> nodeB,
                          root |-> none, joined |-> r.joined]
    /\ unions' = IF nodeA = nodeB THEN unions ELSE unions \cup {{nodeA, nodeB}}
    /\ UNCHANGED <<kpc, nodes, edges, sortedEdges, edgeIdx, mstEdges, totalWeight>>
    /\ UNCHANGED <<hvars, dvars, cvars, rvars>>

UFindNext == \E nodeId \in NodeIds : UCallFind(nodeId)

UUnionNext == \E nodeA \in NodeIds : \E nodeB \in NodeIds : UCallUnion(nodeA, nodeB)

UNext == UFindNext \/ UUnionNext

----------------------------------------------------------------------------
(* Distances, buildCostMatrix and sumNaiveAssignments *)

\* an option or argument the caller left out
undefined == "undefined"

\* the coordinates of the model's nodes, in degrees: the corners of a right triangle
\* with sides 3, 4 and 5
Coordinates == { [lat |-> 0, lng |-> 0], [lat |-> 3, lng |-> 0], [lat |-> 0, lng |-> 4] }

\* the lists of L nodes of one kind; the i-th node has the id kind-i
NodeLists(kind, L) ==
    { [i \in 1..L |-> [id |-> <<kind, i - 1>>, lat |-> c[i].lat, lng |-> c[i].lng]] :
        c \in [1..L -> Coordinates] }

\* the options of buildCostMatrix: each field given or left out; a number that is
\* given is a sequence of one element, a number left out the empty sequence
OptionValues ==
    [method : {undefined, "euclidean", "haversine"},
     timePerKm : {<<>>, <<1>>, <<2>>, <<3>>}]

\* haversineDistance with R = 6371 on the model's coordinates, in whole kilometres:
\* 3 degrees along a meridian, 4 degrees along the equator, or both
haversineDistance(lat1, lng1, lat2, lng2) ==
    IF lat1 = lat2 /\ lng1 = lng2 THEN 0
    ELSE IF lng1 = lng2 THEN 334
    ELSE IF lat1 = lat2 THEN 445
    ELSE 556

\* Math.sqrt(deltaLat * deltaLat + deltaLng * deltaLng), exact on the model's
\* coordinates
euclideanDistance(lat1, lng1, lat2, lng2) ==
    LET deltaLat == lat2 - lat1
        deltaLng == lng2 - lng1
        square == deltaLat * deltaLat + deltaLng * deltaLng
    IN CHOOSE d \in 0..square : d * d = square

\* method === 'haversine' ? haversineDistance : euclideanDistance
distanceFunc(m, a, b) ==
    IF m = "haversine" THEN haversineDistance(a.lat, a.lng, b.lat, b.lng)
    ELSE euclideanDistance(a.lat, a.lng, b.lat, b.lng)

\* const { method = 'euclidean', timePerKm = 2 } = options
MethodOf(opts) == IF opts.method = undefined THEN "euclidean" ELSE opts.method

TimePerKmOf(opts) == IF opts.timePerKm = <<>> THEN 2 ELSE opts.timePerKm[1]

\* the outer forEach of buildCostMatrix over the first k drivers: each driver adds a
\* row to the matrix and one pair per passenger to the pairs
RECURSIVE BuildRows(_, _, _, _)
BuildRows(ds, ps, opts, k) ==
    IF k = 0 THEN [matrix |-> <<>>, pairs |-> <<>>]
    ELSE LET before == BuildRows(ds, ps, opts, k - 1)
             row == [j \in DOMAIN ps |->
                        distanceFunc(MethodOf(opts), ds[k], ps[j]) * TimePerKmOf(opts)]
         IN [matrix |-> Append(before.matrix, row),
             pairs |-> before.pairs \o
                       [j \in DOMAIN ps |->
                           [driverId |-> ds[k].id, passengerId |-> ps[j].id,
                            cost |-> row[j]]]]

\* a variant that lists the pairs passenger by passenger
buildCostMatrixByColumns(ds, ps, opts) ==
    [matrix |-> BuildRows(ds, ps, opts, Len(ds)).matrix,
     pairs |-> [x \in 1..(Len(ds) * Len(ps)) |->
                  BuildRows(ds, ps, opts, Len(ds)).pairs[
                      ((x - 1) % Len(ds)) * Len(ps) + ((x - 1) \div Len(ds)) + 1]]]

buildCostMatrix(ds, ps, opts) == BuildRows(ds, ps, opts, Len(ds))

\* the loop of sumNaiveAssignments up to i = k, with timePerKm = 2
RECURSIVE NaivePairs(_, _, _, _)
NaivePairs(ds, ps, m, k) ==
    IF k = 0 THEN 0
    ELSE NaivePairs(ds, ps, m, k - 1)
           + distanceFunc(IF m = undefined THEN "euclidean" ELSE m, ds[k], ps[k]) * 2

\* a variant whose total starts at the time factor
sumNaiveAssignmentsFromFactor(ds, ps, m) ==
    2 + NaivePairs(ds, ps, m, Min2(Len(ds), Len(ps)))

sumNaiveAssignments(ds, ps, m) == NaivePairs(ds, ps, m, Min2(Len(ds), Len(ps)))

\* neither function is in use
CIdle ==
    /\ drivers = <<>>
    /\ passengers = <<>>
    /\ options = [method |-> undefined, timePerKm |-> <<>>]
    /\ method = undefined
    /\ called = {}
    /\ built = [matrix |-> <<>>, pairs |-> <<>>]
    /\ naiveTotal = 0

\* the caller's nodes and settings, before either function is called
CInit ==
    /\ \E m \in 0..MaxNodes : drivers \in NodeLists("driver", m)
    /\ \E n \in 0..MaxNodes : passengers \in NodeLists("passenger", n)
    /\ options \in OptionValues
    /\ method \in {undefined, "euclidean", "haversine"}
    /\ called = {"caller"}
    /\ built = [matrix |-> <<>>, pairs |-> <<>>]
    /\ naiveTotal = 0

\* buildCostMatrix(drivers, passengers, options)
CallBuildCostMatrix ==
    /\ "caller" \in called
    /\ "buildCostMatrix" \notin called
    /\ built' = buildCostMatrix(drivers, passengers, options)
    /\ called' = called \cup {"buildCostMatrix"}
    /\ UNCHANGED <<drivers, passengers, options, method, naiveTotal>>
    /\ UNCHANGED <<hvars, dvars, kvars, uvars, rvars>>

\* sumNaiveAssignments(drivers, passengers, method)
CallSumNaiveAssignments ==
    /\ "caller" \in called
    /\ "sumNaiveAssignments" \notin called
    /\ naiveTotal' = sumNaiveAssignments(drivers, passengers, method)
    /\ called' = called \cup {"sumNaiveAssignments"}
    /\ UNCHANGED <<drivers, passengers, options, method, built>>
    /\ UNCHANGED <<hvars, dvars, kvars, uvars, rvars>>

CNext == CallBuildCostMatrix \/ CallSumNaiveAssignments

----------------------------------------------------------------------------
(* useGraph.run: the naive baseline over the same cost matrix *)

\* totalNaiveTime: the sum of costMatrix[i][i] for i < min(drivers, passengers)
RECURSIVE NaiveFrom(_, _)
NaiveFrom(cm, i) ==
    IF i >= Min2(cm.m, cm.n) THEN 0 ELSE cm.cell[i][i] + NaiveFrom(cm, i + 1)

totalNaiveTime(cm) == NaiveFrom(cm, 0)

----------------------------------------------------------------------------
(* AppContext: the reducer and the action creators of AppProvider. Only the *)
(* result fields of AppState are modelled, and the actions that write them. *)

initialState ==
    [assignments |-> <<>>, mstEdges |-> <<>>,
     totalNaiveTime |-> 0, totalAssignedTime |-> 0, totalMSTWeight |-> 0]

\* the switch of appReducer; an action type without a case returns the state
appReducer(state, action) ==
    CASE action.type = "SET_ASSIGNMENTS" ->
            [state EXCEPT !.assignments = action.payload]
      [] action.type = "SET_MST_EDGES" ->
            [state EXCEPT !.mstEdges = action.payload]
      [] action.type = "SET_TOTALS" ->
            [state EXCEPT !.totalNaiveTime = action.payload.naive,
                          !.totalAssignedTime = action.payload.assigned,
                          !.totalMSTWeight = action.payload.mst]
      [] action.type = "RESET" -> initialState
      [] OTHER -> state

\* the action each creator dispatches
setAssignments(as) == [type |-> "SET_ASSIGNIMENTS", payload |-> as]

setMstEdges(es) == [type |-> "SET_MST_EDGES", payload |-> es]

setTotals(totals) == [type |-> "SET_TOTALS", payload |-> totals]

----------------------------------------------------------------------------
(* AppContent: useGraph publishes results, the second effect copies them *)

Assignment(d, p, c) == [driverId |-> d, passengerId |-> p, cost |-> c]

MSTEdge(a, b, w) == [u |-> a, v |-> b, weight |-> w]

\* assignments a run of useGraph can publish: run returns early without a driver
\* or a passenger, so there is at least one
AssignmentLists ==
    { << Assignment("d0", "p0", 1) >>,
      << Assignment("d0", "p1", 2) >>,
      << Assignment("d0", "p0", 1), Assignment("d1", "p1", 1) >> }

\* spanning forests a run of useGraph can publish
MstEdgeLists ==
    { << MSTEdge("d0", "p0", 1) >>,
      << MSTEdge("d0", "p0", 1), MSTEdge("d0", "p1", 2) >> }

\* the object handed to setResult
RunResults ==
    { [assignments |-> as, mstEdges |-> es,
       totalNaiveTime |-> SumSeq([k \in DOMAIN as |-> as[k].cost]) + extra,
       totalAssignedTime |-> SumSeq([k \in DOMAIN as |-> as[k].cost]),
       totalMSTWeight |-> SumSeq([k \in DOMAIN es |-> es[k].weight])] :
         as \in AssignmentLists, es \in MstEdgeLists, extra \in {0, 1} }

\* what useGraph returns: the result and lastUpdated
Published(r, t) ==
    [assignments |-> r.assignments, mstEdges |-> r.mstEdges,
     totalNaiveTime |-> r.totalNaiveTime, totalAssignedTime |-> r.totalAssignedTime,
     totalMSTWeight |-> r.totalMSTWeight, lastUpdated |-> t]

\* useGraph before its first run
NothingPublished == Published(initialState, 0)

\* the body of the second effect of AppContent
UpdateGlobalState(state, g) ==
    IF g.lastUpdated > 0
    THEN appReducer(
            appReducer(
               appReducer(state, setAssignments(g.assignments)),
               setMstEdges(g.mstEdges)),
            setTotals([naive |-> g.totalNaiveTime, assigned |-> g.totalAssignedTime,
                       mst |-> g.totalMSTWeight]))
    ELSE state

\* no App is mounted
AIdle ==
    /\ apc = "idle"
    /\ appState = initialState
    /\ useGraphResult = NothingPublished
    /\ effectDeps = <<>>
    /\ now = 0

\* the first render of AppContent
AInit ==
    /\ apc = "mounted"
    /\ appState = initialState
    /\ useGraphResult = NothingPublished
    /\ effectDeps = <<>>
    /\ now = 1

\* time passes
ATick ==
    /\ apc = "mounted"
    /\ now < MaxClock
    /\ now' = now + 1
    /\ UNCHANGED <<apc, appState, useGraphResult, effectDeps>>
    /\ UNCHANGED <<evars, pvars, tvars>>

\* a run of useGraph ends: setResult(...) and setLastUpdated(Date.now()). The
\* effects of the render before have run by then
AUseGraphPublishes ==
    /\ apc = "mounted"
    /\ effectDeps = << useGraphResult.lastUpdated >>
    /\ \E r \in RunResults : useGraphResult' = Published(r, now)
    /\ UNCHANGED <<apc, appState, effectDeps, now>>
    /\ UNCHANGED <<evars, pvars, tvars>>

\* the second effect runs: after the first render, and after a render in which
\* graph.lastUpdated differs from the one it last ran with
AEffect ==
    /\ apc = "mounted"
    /\ effectDeps # << useGraphResult.lastUpdated >>
    /\ appState' = UpdateGlobalState(appState, useGraphResult)
    /\ effectDeps' = << useGraphResult.lastUpdated >>
    /\ UNCHANGED <<apc, useGraphResult, now>>
    /\ UNCHANGED <<evars, pvars, tvars>>

ANext == ATick \/ AUseGraphPublishes \/ AEffect

----------------------------------------------------------------------------
(* ControlPanel: the two sliders of useDebouncedSlider *)

Sliders == {"drivers", "passengers"}

\* the prop a slider shows
ExternalValue(s) == IF s = "drivers" THEN driversCount ELSE passengersCount

\* the max attribute of the slider's input and the bound that disables its button
OwnMax(s) == IF s = "drivers" THEN maxDrivers ELSE maxPassengers

\* newValue of increment
IncrementedValue(iv) ==
    Min2(iv + 1, IF iv = driversCount THEN maxDrivers ELSE maxPassengers)

\* newValue of decrement
DecrementedValue(iv) == Max2(iv - 1, 1)

NoEvent == [op |-> "none", slider |-> "none", before |-> 0, committed |-> 0]

\* no ControlPanel is mounted
PIdle ==
    /\ ppc = "idle"
    /\ driversCount = 0
    /\ passengersCount = 0
    /\ internalValue = [s \in Sliders |-> 0]
    /\ debounceTimeout = [s \in Sliders |-> 0]
    /\ lastEvent = NoEvent

\* the first render, with counts the sliders can show
PInit ==
    /\ ppc = "mounted"
    /\ driversCount \in 1..maxDrivers
    /\ passengersCount \in 1..maxPassengers
    /\ internalValue = [s \in Sliders |-> ExternalValue(s)]
    /\ debounceTimeout = [s \in Sliders |-> 0]
    /\ lastEvent = NoEvent

\* callback(n) of slider s, whose state is iv: the parent makes n the count, and
\* the effect on externalValue runs when that changed the prop
Callback(s, iv, n) ==
    /\ driversCount' = IF s = "drivers" THEN n ELSE driversCount
    /\ passengersCount' = IF s = "passengers" THEN n ELSE passengersCount
    /\ internalValue' =
          [internalValue EXCEPT ![s] = IF n # ExternalValue(s) THEN n ELSE iv]

\* a click on the increment button, which is disabled at the slider's maximum:
\* setInternalValue(newValue), then commitChange(newValue)
PIncrement(s) ==
    /\ ppc = "mounted"
    /\ internalValue[s] < OwnMax(s)
    /\ \E newValue \in {IncrementedValue(internalValue[s])} :
          /\ Callback(s, newValue, newValue)
          /\ lastEvent' = [op |-> "increment", slider |-> s,
                           before |-> internalValue[s], committed |-> newValue]
    /\ debounceTimeout' = [debounceTimeout EXCEPT ![s] = 0]
    /\ UNCHANGED ppc
    /\ UNCHANGED <<evars, avars, tvars>>

\* a click on the decrement button, which is disabled at 1
PDecrement(s) ==
    /\ ppc = "mounted"
    /\ internalValue[s] > 1
    /\ \E newValue \in {DecrementedValue(internalValue[s])} :
          /\ Callback(s, newValue, newValue)
          /\ lastEvent' = [op |-> "decrement", slider |-> s,
                           before |-> internalValue[s], committed |-> newValue]
    /\ debounceTimeout' = [debounceTimeout EXCEPT ![s] = 0]
    /\ UNCHANGED ppc
    /\ UNCHANGED <<evars, avars, tvars>>

\* the range input changes to n: handleDebouncedChange(n) starts a timer
PSetValue(s, n) ==
    /\ ppc = "mounted"
    /\ n # internalValue[s]
    /\ internalValue' = [internalValue EXCEPT ![s] = n]
    /\ debounceTimeout' = [debounceTimeout EXCEPT ![s] = n]
    /\ lastEvent' = [op |-> "setValue", slider |-> s,
                     before |-> internalValue[s], committed |-> 0]
    /\ UNCHANGED <<ppc, driversCount, passengersCount>>
    /\ UNCHANGED <<evars, avars, tvars>>

\* the timer of handleDebouncedChange fires
PTimeout(s) ==
    /\ ppc = "mounted"
    /\ debounceTimeout[s] # 0
    /\ Callback(s, internalValue[s], debounceTimeout[s])
    /\ debounceTimeout' = [debounceTimeout EXCEPT ![s] = 0]
    /\ lastEvent' = [op |-> "timeout", slider |-> s,
                     before |-> internalValue[s], committed |-> debounceTimeout[s]]
    /\ UNCHANGED ppc
    /\ UNCHANGED <<evars, avars, tvars>>

\* the mouse or the finger leaves the range input: commit(value)
PCommit(s) ==
    /\ ppc = "mounted"
    /\ Callback(s, internalValue[s], internalValue[s])
    /\ debounceTimeout' = [debounceTimeout EXCEPT ![s] = 0]
    /\ lastEvent' = [op |-> "commit", slider |-> s,
                     before |-> internalValue[s], committed |-> internalValue[s]]
    /\ UNCHANGED ppc
    /\ UNCHANGED <<evars, avars, tvars>>

PIncrementNext == \E s \in Sliders : PIncrement(s)

PDecrementNext == \E s \in Sliders : PDecrement(s)

PSetValueNext == \E s \in Sliders : \E n \in 1..OwnMax(s) : PSetValue(s, n)

PTimeoutNext == \E s \in Sliders : PTimeout(s)

PCommitNext == \E s \in Sliders : PCommit(s)

PNext == PIncrementNext \/ PDecrementNext \/ PSetValueNext \/ PTimeoutNext \/ PCommitNext

----------------------------------------------------------------------------
(* useDebounce *)

InputValues == {"a", "b"}

\* a variant of the cleanup that forgets clearTimeout
KeepTimers(ts) == ts

\* the cleanup of the effect: clearTimeout(timer)
ClearTimers(ts) == {}

\* setTimeout(() => setDebouncedValue(value), delay)
SetTimer(v, d) == [value |-> v, left |-> d]

\* no component uses useDebounce
TIdle ==
    /\ tpc = "idle"
    /\ value = "a"
    /\ delay = 0
    /\ debouncedValue = "a"
    /\ timers = {}
    /\ sinceChange = 0
    /\ changes = 0

\* the first render: useState(value), and the effect starts the first timer
TInit ==
    /\ tpc = "mounted"
    /\ value \in InputValues
    /\ delay \in 0..MaxDelay
    /\ debouncedValue = value
    /\ timers = {SetTimer(value, delay)}
    /\ sinceChange = 0
    /\ changes = 0

\* a render with another value or another delay: the cleanup of the effect runs,
\* then the effect again
TRender(v, d) ==
    /\ tpc = "mounted"
    /\ changes < MaxChanges
    /\ <<v, d>> # <<value, delay>>
    /\ value' = v
    /\ delay' = d
    /\ timers' = ClearTimers(timers) \cup {SetTimer(v, d)}
    /\ sinceChange' = 0
    /\ changes' = changes + 1
    /\ UNCHANGED <<tpc, debouncedValue>>
    /\ UNCHANGED <<evars, avars, pvars>>

\* one unit of time passes (a timer that is due may still be waiting to run)
TTick ==
    /\ tpc = "mounted"
    /\ sinceChange < MaxDelay \/ \E t \in timers : t.left > 0
    /\ timers' = { [t EXCEPT !.left = Max2(t.left - 1, 0)] : t \in timers }
    /\ sinceChange' = Min2(sinceChange + 1, MaxDelay)
    /\ UNCHANGED <<tpc, value, delay, debouncedValue, changes>>
    /\ UNCHANGED <<evars, avars, pvars>>

\* a timer that is due runs: setDebouncedValue(value) with the value of its render
TTimeout ==
    /\ tpc = "mounted"
    /\ \E t \in timers :
          /\ t.left = 0
          /\ debouncedValue' = t.value
          /\ timers' = timers \ {t}
    /\ UNCHANGED <<tpc, value, delay, sinceChange, changes>>
    /\ UNCHANGED <<evars, avars, pvars>>

TRenderNext == \E v \in InputValues : \E d \in 0..MaxDelay : TRender(v, d)

TNext == TRenderNext \/ TTick \/ TTimeout

\* nothing of the React side is mounted
RIdle == AIdle /\ PIdle /\ TIdle

----------------------------------------------------------------------------
(* Reference notions for the hungarian claims *)

\* the matchings of min(m,n) distinct rows with min(m,n) distinct columns, each
\* as a set of <<row, column>> cells
Injective(f) == \A a \in DOMAIN f : \A b \in DOMAIN f : f[a] = f[b] => a = b

FullMatchings(cm) ==
    IF cm.m <= cm.n
    THEN { { <<i, f[i]>> : i \in DOMAIN f } :
             f \in { g \in [0..(cm.m-1) -> 0..(cm.n-1)] : Injective(g) } }
    ELSE { { <<f[j], j>> : j \in DOMAIN f } :
             f \in { g \in [0..(cm.n-1) -> 0..(cm.m-1)] : Injective(g) } }

RECURSIVE SumCells(_, _)
SumCells(cm, cells) ==
    IF cells = {} THEN 0
    ELSE LET c == CHOOSE x \in cells : TRUE
         IN cm.cell[c[1]][c[2]] + SumCells(cm, cells \ {c})

MatchingCosts(cm) == { SumCells(cm, M) : M \in FullMatchings(cm) }

MinMatchingCost(cm) == CHOOSE x \in MatchingCosts(cm) : \A y \in MatchingCosts(cm) : x <= y

HDone == hpc = "done"

Square == costMatrix.m = costMatrix.n

AssignedCells == { <<assignments[k].driver, assignments[k].passenger>> : k \in DOMAIN assignments }

\* the cost adjustment of case 6 has run during this call
CostsAdjusted ==
    matrix # SubtractColMinima(SubtractRowMinima(Padded(costMatrix)))

----------------------------------------------------------------------------
(* Claims about hungarian *)

\* C1: for a square matrix, the total cost hungarian returns is at most the cost
\* of every perfect matching, and is the cost of one: it is the brute-force minimum.
C1_SquareOptimal ==
    (HDone /\ Square) =>
        /\ \A M \in FullMatchings(costMatrix) : totalCost <= SumCells(costMatrix, M)
        /\ totalCost \in MatchingCosts(costMatrix)

\* a 3 x 3 call that needed the cost adjustment and beat the diagonal pairing
C1_Witness ==
    /\ HDone
    /\ costMatrix.m = 3 /\ costMatrix.n = 3
    /\ CostsAdjusted
    /\ 0 < totalCost
    /\ totalCost < totalNaiveTime(costMatrix)

\* C2: for a rectangular matrix with m # n, the total cost hungarian returns is the
\* minimum over all matchings of min(m,n) distinct rows with as many distinct columns.
C2_RectangularOptimal ==
    (HDone /\ ~Square) => totalCost = MinMatchingCost(costMatrix)

\* C3: the naive total (the diagonal sum) is at least the total cost hungarian returns.
C3_NaiveAtLeastHungarian ==
    HDone => totalNaiveTime(costMatrix) >= totalCost

\* C4: hungarian returns exactly min(m,n) assignments, each inside the bounds of the
\* argument, and no driver and no passenger occurs in two of them.
C4_Feasible ==
    HDone =>
        /\ Len(assignments) = Min2(costMatrix.m, costMatrix.n)
        /\ \A k \in DOMAIN assignments :
              /\ assignments[k].driver \in 0..(costMatrix.m - 1)
              /\ assignments[k].passenger \in 0..(costMatrix.n - 1)
        /\ \A k \in DOMAIN assignments : \A l \in DOMAIN assignments :
              k # l => /\ assignments[k].driver # assignments[l].driver
                       /\ assignments[k].passenger # assignments[l].passenger

\* a call on a wide matrix that adjusted its costs and returned two assignments
C4_Witness ==
    /\ HDone
    /\ costMatrix.m < costMatrix.n
    /\ Len(assignments) = 2
    /\ CostsAdjusted

\* C5: the total cost returned is the sum, over the returned assignments, of the
\* argument's own cells, as they were before any reduction or adjustment.
C5_TotalIsOriginalCost ==
    HDone => totalCost = SumCells(costMatrix, AssignedCells)

\* a call whose reduced matrix differs from the argument on an assigned cell
C5_Witness ==
    /\ HDone
    /\ \E c \in AssignedCells : matrix[c[1]][c[2]] # costMatrix.cell[c[1]][c[2]]
    /\ totalCost > 0

\* C6: the step loop terminates: every call reaches step 0 and returns.
C6_Terminates == <>(hpc = "done")

\* a call on a non-square matrix that went through the cost adjustment and returned
C6_Witness ==
    /\ HDone
    /\ step = 0
    /\ ~Square
    /\ CostsAdjusted

\* the matrix has no row, or rows without a column
EmptyMatrix == costMatrix.m = 0 \/ costMatrix.n = 0

\* C19: hungarian called with an empty matrix (no rows, or rows that have no
\* columns) comes to its return, with no assignments and totalCost 0.
C19_EmptyMatrixGivesNothing ==
    (hpc = "entry" /\ EmptyMatrix) ~> (HDone /\ assignments = <<>> /\ totalCost = 0)

\* a call on rows without columns that returned through the cost adjustment, the
\* padded matrix holding nothing finite
C19_Witness ==
    /\ HDone
    /\ costMatrix.m > 1
    /\ costMatrix.n = 0
    /\ \A i \in DOMAIN matrix : \A j \in DOMAIN matrix[i] : ~isFinite(matrix[i][j])
    /\ assignments = <<>>

\* the cells of the working matrix that hold a star (1) or a prime (2)
CellsMasked(v) == { p \in (DOMAIN masks) \X (DOMAIN masks) : masks[p[1]][p[2]] = v }

StarredCells == CellsMasked(1)

PrimedCells == CellsMasked(2)

\* the cell is one of the argument's, not one the padding added
InsideArgument(p) == p[1] < costMatrix.m /\ p[2] < costMatrix.n

\* C21: in every state of the step loop and at return, no two stars share a row or
\* a column, every starred cell holds 0 in the working matrix, no star and no prime
\* is on a padded cell, and the output lists every star.
C21_StarsIndependentOnZeros ==
    hpc \in {"loop", "done"} =>
        /\ \A p \in StarredCells : \A q \in StarredCells :
              (p[1] = q[1] \/ p[2] = q[2]) => p = q
        /\ \A p \in StarredCells : matrix[p[1]][p[2]] = 0
        /\ \A p \in StarredCells \cup PrimedCells :
              InsideArgument(p) /\ isFinite(matrix[p[1]][p[2]])
        /\ HDone => AssignedCells = StarredCells /\ Len(assignments) = Cardinality(StarredCells)

\* the loop on a non-square matrix after a cost adjustment, with a star, a prime
\* and a covered row
C21_Witness ==
    /\ hpc = "loop"
    /\ ~Square
    /\ CostsAdjusted
    /\ StarredCells # {}
    /\ PrimedCells # {}
    /\ \E i \in DOMAIN rowCover : rowCover[i]

\* the step leaves the loop: the switch variable becomes 0
LeavesLoop == hpc = "loop" /\ step # 0 /\ step' = 0

\* every column is covered, and each by a starred zero
AllColumnsCoveredByStars ==
    \A j \in DOMAIN colCover :
        /\ colCover[j]
        /\ \E i \in DOMAIN masks : masks[i][j] = 1 /\ matrix[i][j] = 0

\* C22: on a square matrix hungarian leaves its loop only in the cover-columns
\* phase (case 1) with every column covered by a starred zero; the exit of the
\* adjust-costs phase (case 6) is taken only when m # n.
C22_SquareLeavesThroughCoverPhase ==
    [][LeavesLoop => /\ Square => (step = 1 /\ AllColumnsCoveredByStars')
                     /\ step = 6 => ~Square]_vars

\* a call on a 3 x 3 matrix that adjusted its costs and returned with every column
\* covered
C22_Witness ==
    /\ HDone
    /\ costMatrix.m = 3
    /\ costMatrix.n = 3
    /\ CostsAdjusted
    /\ AllColumnsCoveredByStars

\* the mask of a path cell (nothing when the cell's column is -1)
MaskAt(c) == IF c.col \in DOMAIN masks[c.row] THEN masks[c.row][c.col] ELSE 0

\* path starts at start and alternates: an odd cell is primed, the even cell after
\* it is the star of its column, the odd cell after that the prime of that star's
\* row; the column of the last cell holds no star
IsAlternatingPath(path, start) ==
    /\ Len(path) % 2 = 1
    /\ path[1] = start
    /\ \A k \in DOMAIN path :
          IF k % 2 = 1
          THEN /\ MaskAt(path[k]) = 2
               /\ k > 1 => path[k].row = path[k - 1].row
          ELSE /\ MaskAt(path[k]) = 1
               /\ path[k].col = path[k - 1].col
    /\ \A i \in DOMAIN masks : masks[i][path[Len(path)].col] # 1

\* the step is the augment phase (case 3)
Augments == hpc = "loop" /\ step = 3 /\ step' # 3

\* C23: the augment phase starts from a primed zero whose row has no star and
\* follows the alternating path of primes and stars to a column without a star, every
\* star row on it having a prime; the flip leaves exactly one star more, and the
\* covers and the primes are all cleared when control returns to the cover-columns
\* phase.
C23_AugmentAddsOneStar ==
    [][Augments =>
          /\ pathStart # null
          /\ matrix[pathStart.row][pathStart.col] = 0
          /\ findStarInRow(masks, pathStart.row) = -1
          /\ IsAlternatingPath(findAugmentingPath(masks, pathStart), pathStart)
          /\ Cardinality(StarredCells') = Cardinality(StarredCells) + 1
          /\ PrimedCells' = {}
          /\ \A i \in DOMAIN rowCover' : ~rowCover'[i]
          /\ \A j \in DOMAIN colCover' : ~colCover'[j]
          /\ step' = 1]_vars

\* the augment phase is entered with a path of five cells: two stars move and a
\* third is added
C23_Witness ==
    /\ hpc = "loop"
    /\ step = 3
    /\ Len(findAugmentingPath(masks, pathStart)) = 5
    /\ CostsAdjusted

\* the step is the cost adjustment of case 6, taken with a finite minimum
Adjusts ==
    /\ hpc = "loop"
    /\ step = 6
    /\ isFinite(findMinUncoveredValue(matrix, rowCover, colCover))
    /\ step' # 6

UncoveredCells == { p \in (DOMAIN matrix) \X (DOMAIN matrix) : ~rowCover[p[1]] /\ ~colCover[p[2]] }

\* the cell after minVal was added on a covered row and taken off an uncovered column
AdjustedCell(i, j, minVal) ==
    IF matrix[i][j] = Infinity THEN Infinity
    ELSE matrix[i][j] + (IF rowCover[i] THEN minVal ELSE 0)
                      - (IF colCover[j] THEN 0 ELSE minVal)

\* C24: the adjust-costs phase with a finite minimum uncovered value adds it to
\* every cell of a covered row and subtracts it from every cell of an uncovered
\* column; afterwards some uncovered cell is zero, every starred zero is still zero,
\* no cell is negative, and the search phase that follows finds an uncovered zero.
C24_AdjustKeepsStarsAndMakesZero ==
    [][Adjusts =>
          \E minVal \in {findMinUncoveredValue(matrix, rowCover, colCover)} :
             /\ \A i \in DOMAIN matrix : \A j \in DOMAIN matrix :
                    matrix'[i][j] = AdjustedCell(i, j, minVal)
             /\ \E p \in UncoveredCells : matrix'[p[1]][p[2]] = 0
             /\ \A p \in StarredCells : matrix'[p[1]][p[2]] = 0
             /\ \A i \in DOMAIN matrix : \A j \in DOMAIN matrix : matrix'[i][j] >= 0
             /\ step' = 2
             /\ findUncoveredZero(matrix', rowCover', colCover') # null]_vars

\* the search phase is about to run on an adjusted matrix: a doubly covered cell
\* was raised, a star sits in a covered row, and an uncovered zero is waiting
C24_Witness ==
    /\ hpc = "loop"
    /\ step = 2
    /\ CostsAdjusted
    /\ \E p \in StarredCells : rowCover[p[1]] /\ ~colCover[p[2]]
    /\ \E i \in DOMAIN matrix : \E j \in DOMAIN matrix :
          rowCover[i] /\ colCover[j] /\ matrix[i][j] > 0 /\ isFinite(matrix[i][j])
    /\ \E p \in UncoveredCells : matrix[p[1]][p[2]] = 0

----------------------------------------------------------------------------
(* Reference notions for the dijkstra claims *)

DDone == dpc = "done"

\* the weights of the entries u -> v of the graph (none when u has no adjacency list)
WeightsOf(u, v) ==
    IF u \in DOMAIN graph
    THEN { graph[u][k].weight : k \in { x \in DOMAIN graph[u] : graph[u][x].neighborId = v } }
    ELSE {}

\* one round of relaxing every entry of the graph, on a total map d of distances
RelaxAll(d) ==
    [v \in NodeIds |->
        MathMin({d[v]} \cup
                UNION { { d[u] + w : w \in WeightsOf(u, v) } :
                        u \in { x \in NodeIds : isFinite(d[x]) } })]

RECURSIVE RelaxRounds(_, _)
RelaxRounds(d, k) ==
    IF k = 0 THEN d ELSE Const(RelaxAll(d), LAMBDA e : RelaxRounds(e, k - 1))

\* the weight of a shortest path from startNode to each node, Infinity when there is none
ShortestPathWeight ==
    RelaxRounds([v \in NodeIds |-> IF v = startNode THEN 0 ELSE Infinity],
                Cardinality(NodeIds))

ReachableBy(sp) == { v \in NodeIds : isFinite(sp[v]) }

Reachable == ReachableBy(ShortestPathWeight)

\* the ids some adjacency list names
NamedAsNeighbor ==
    UNION { { graph[u][k].neighborId : k \in DOMAIN graph[u] } : u \in DOMAIN graph }

\* every node of the graph has its own adjacency entry
EveryNodeHasEntry == NamedAsNeighbor \subseteq DOMAIN graph

----------------------------------------------------------------------------
(* Claims about dijkstra *)

\* C7: when every node has its own adjacency entry, the distance returned for every
\* node reachable from the source is the weight of a shortest path to it.
C7_ShortestDistances ==
    (DDone /\ EveryNodeHasEntry) =>
        \A sp \in {ShortestPathWeight} : \A v \in ReachableBy(sp) :
            v \in DOMAIN distances /\ distances[v] = sp[v]

\* a call where a two-hop path beats the direct entry, and a queue entry went stale
C7_Witness ==
    /\ DDone
    /\ EveryNodeHasEntry
    /\ DOMAIN graph = NodeIds
    /\ \E v \in NodeIds :
          /\ WeightsOf(startNode, v) # {}
          /\ \A w \in WeightsOf(startNode, v) : distances[v] < w

\* C8: a node that appears only as a neighbour, with no adjacency entry of its own,
\* still receives its shortest distance and its predecessor.
C8_NeighborOnlyNodes ==
    DDone =>
        \A sp \in {ShortestPathWeight} :
        \A v \in (ReachableBy(sp) \cap NamedAsNeighbor) \ DOMAIN graph :
            /\ v \in DOMAIN distances
            /\ distances[v] = sp[v]
            /\ v # startNode =>
                  /\ v \in DOMAIN predecessors
                  /\ predecessors[v] \in DOMAIN graph
                  /\ WeightsOf(predecessors[v], v) # {}

\* the node reached from v after k steps along the predecessors (none once the
\* chain has ended)
RECURSIVE PredecessorAt(_, _)
PredecessorAt(v, k) ==
    IF k = 0 THEN v
    ELSE Const(PredecessorAt(v, k - 1),
               LAMBDA u : IF u \in DOMAIN predecessors THEN predecessors[u] ELSE none)

\* C13: in the result, every node other than the source with a finite distance has
\* a predecessor u with an entry u -> v such that distances[v] = distances[u] +
\* weight(u, v), the predecessors lead from it to the source in finitely many
\* steps, and the source has no predecessor.
C13_PredecessorsFormPaths ==
    DDone =>
        /\ startNode \in DOMAIN predecessors => predecessors[startNode] = none
        /\ \A v \in DOMAIN distances \ {startNode} :
              isFinite(distances[v]) =>
                 /\ v \in DOMAIN predecessors
                 /\ predecessors[v] \in DOMAIN distances
                 /\ \E w \in WeightsOf(predecessors[v], v) :
                       distances[v] = distances[predecessors[v]] + w
                 /\ \E k \in 1..Cardinality(NodeIds) : PredecessorAt(v, k) = startNode

\* a result with a node three entries away from the source, reached over an entry
\* of weight 0, while an entry leads back to the source
C13_Witness ==
    /\ DDone
    /\ \E v \in DOMAIN distances :
          /\ isFinite(distances[v])
          /\ PredecessorAt(v, 3) = startNode
          /\ 0 \in WeightsOf(predecessors[v], v)
    /\ \E u \in DOMAIN graph : WeightsOf(u, startNode) # {}

WithoutEntry(q, k) == SubSeq(q, 1, k - 1) \o SubSeq(q, k + 1, Len(q))

\* how often each entry occurs in the queue
EntryCounts(q) ==
    [e \in { q[k] : k \in DOMAIN q } |-> Cardinality({ k \in DOMAIN q : q[k] = e })]

\* the k-th entry has the smallest distance of the queue
IsSmallestEntry(q, k) == \A l \in DOMAIN q : q[k].distance <= q[l].distance

NeighboursOf(u) ==
    IF u \in DOMAIN graph THEN { graph[u][x].neighborId : x \in DOMAIN graph[u] } ELSE {}

\* an iteration of the while loop
Extracts == dpc = "loop" /\ priorityQueue # <<>> /\ priorityQueue' # priorityQueue

\* the iteration took the k-th entry, of an already visited node, and did nothing else
SkipsEntry(k) ==
    /\ priorityQueue[k].nodeId \in visited
    /\ EntryCounts(priorityQueue') = EntryCounts(WithoutEntry(priorityQueue, k))
    /\ UNCHANGED <<visited, distances, predecessors>>

\* the iteration took the k-th entry, of an unvisited node u: u is marked, only
\* neighbours of u get a new (smaller) distance, with u as predecessor and a new
\* queue entry each time
VisitsEntry(k) ==
    \E u \in {priorityQueue[k].nodeId} :
       /\ u \notin visited
       /\ visited' = visited \cup {u}
       /\ DOMAIN distances' = DOMAIN distances
       /\ \A v \in DOMAIN distances :
             distances'[v] # distances[v] =>
                /\ v \in NeighboursOf(u)
                /\ distances'[v] < distances[v]
                /\ predecessors'[v] = u
                /\ \E l \in DOMAIN priorityQueue' :
                      priorityQueue'[l] = [nodeId |-> v, distance |-> distances'[v]]
       /\ \A e \in DOMAIN EntryCounts(WithoutEntry(priorityQueue, k)) :
             /\ e \in DOMAIN EntryCounts(priorityQueue')
             /\ EntryCounts(priorityQueue')[e] >= EntryCounts(WithoutEntry(priorityQueue, k))[e]
       /\ \A l \in DOMAIN priorityQueue' :
             \/ priorityQueue'[l] \in DOMAIN EntryCounts(WithoutEntry(priorityQueue, k))
             \/ priorityQueue'[l].nodeId \in NeighboursOf(u)

\* C25: every iteration of dijkstra extracts an entry of smallest distance; an
\* unvisited node is marked and its edges relaxed at that extraction and at no
\* other, an entry of a visited node is skipped; the distance of a visited node
\* never changes (the weights are not negative); and the queue eventually empties.
C25_ExtractsSmallestVisitsOnce ==
    /\ [][Extracts =>
             \E k \in DOMAIN priorityQueue :
                /\ IsSmallestEntry(priorityQueue, k)
                /\ SkipsEntry(k) \/ VisitsEntry(k)]_vars
    /\ [][dpc = "loop" =>
             /\ visited \subseteq visited'
             /\ \A v \in visited \cap DOMAIN distances : distances'[v] = distances[v]
             /\ ~Extracts => UNCHANGED <<visited, distances, predecessors>>]_vars
    /\ <>(dpc = "loop" /\ priorityQueue = <<>>)

\* the queue holds an older entry of a visited node, behind a smaller entry of a
\* node not yet visited
C25_Witness ==
    /\ dpc = "loop"
    /\ Cardinality(visited) >= 2
    /\ \E k \in DOMAIN priorityQueue : \E l \in DOMAIN priorityQueue :
          /\ priorityQueue[k].nodeId \in visited
          /\ priorityQueue[l].nodeId \notin visited
          /\ k < l
          /\ priorityQueue[l].distance < priorityQueue[k].distance

----------------------------------------------------------------------------
(* Reference notions for the kruskal claims *)

KDone == kpc = "done"

\* every id the call mentions: the node list and the endpoints of the edges
MentionedIds == nodes \cup { edges[k].u : k \in DOMAIN edges } \cup { edges[k].v : k \in DOMAIN edges }

\* the ids joined to x by the edges with the positions S of the edge list es
RECURSIVE Grow(_, _, _)
Grow(es, S, reached) ==
    LET more == reached \cup
                { es[k].v : k \in { i \in S : es[i].u \in reached } } \cup
                { es[k].u : k \in { i \in S : es[i].v \in reached } }
    IN IF more = reached THEN reached ELSE Grow(es, S, more)

ComponentOf(es, S, x) == Grow(es, S, {x})

Components(es, S) == { ComponentOf(es, S, x) : x \in MentionedIds }

\* cycle-free: as many edges as ids minus components
IsForest(es, S) ==
    Cardinality(S) = Cardinality(MentionedIds) - Cardinality(Components(es, S))

\* cycle-free and connecting exactly the pairs the full edge list connects
IsSpanningForest(es, S) ==
    /\ IsForest(es, S)
    /\ Components(es, S) = Components(es, DOMAIN es)

RECURSIVE WeightOf(_, _)
WeightOf(es, S) ==
    IF S = {} THEN 0
    ELSE LET k == CHOOSE x \in S : TRUE IN es[k].weight + WeightOf(es, S \ {k})

SpanningForestWeights ==
    { WeightOf(edges, S) : S \in { T \in SUBSET DOMAIN edges : IsSpanningForest(edges, T) } }

\* some edge was dropped by the loop
SomeEdgeRejected == Len(mstEdges) < Len(edges)

----------------------------------------------------------------------------
(* Claims about kruskal *)

\* C9: the total weight kruskal returns is the minimum total weight over all
\* spanning forests of the graph.
C9_MinimumForestWeight ==
    KDone =>
        /\ totalWeight \in SpanningForestWeights
        /\ \A w \in SpanningForestWeights : totalWeight <= w

\* a call where the edge list is out of order, a cycle was closed and rejected,
\* and a heavier spanning forest exists
C9_Witness ==
    /\ KDone
    /\ sortedEdges # edges
    /\ SomeEdgeRejected
    /\ Len(mstEdges) = 2
    /\ \E w \in SpanningForestWeights : totalWeight < w

\* the edges a greedy pass over the first k edges of es keeps: an edge is kept exactly
\* when the edges kept before it do not connect its two endpoints
RECURSIVE GreedyPrefix(_, _)
GreedyPrefix(es, k) ==
    IF k = 0 THEN <<>>
    ELSE \* binds the recursive result once
         CHOOSE r \in { IF es[k].v \in Grow(acc, DOMAIN acc, {es[k].u})
                        THEN acc ELSE Append(acc, es[k]) :
                        acc \in {GreedyPrefix(es, k - 1)} } : TRUE

\* how often the edge e occurs in the edge list es
Occurrences(es, e) == Cardinality({ k \in DOMAIN es : es[k] = e })

\* C11: kruskal processes the edges in ascending weight order and accepts an edge
\* exactly when the edges accepted before it do not connect its endpoints; the
\* accepted edges hold no self-loop and no cycle, and totalWeight is their weight.
C11_GreedyAcyclic ==
    kpc \in {"loop", "done"} =>
        /\ Len(sortedEdges) = Len(edges)
        /\ \A k \in DOMAIN edges :
              Occurrences(sortedEdges, edges[k]) = Occurrences(edges, edges[k])
        /\ \A i \in DOMAIN sortedEdges : \A j \in DOMAIN sortedEdges :
              i < j => sortedEdges[i].weight <= sortedEdges[j].weight
        /\ mstEdges = GreedyPrefix(sortedEdges, edgeIdx - 1)
        /\ \A k \in DOMAIN mstEdges : mstEdges[k].u # mstEdges[k].v
        /\ IsForest(mstEdges, DOMAIN mstEdges)
        /\ totalWeight = SumSeq([k \in DOMAIN mstEdges |-> mstEdges[k].weight])

\* a call with three edges between different ids, out of weight order, the last
\* of which would close the cycle of the two accepted before it
C11_Witness ==
    /\ KDone
    /\ Len(edges) = 3
    /\ \A k \in DOMAIN edges : edges[k].u # edges[k].v
    /\ sortedEdges # edges
    /\ Len(mstEdges) = 2
    /\ totalWeight > 0

\* C10 as stated: the number of returned edges is the number of ids in the node list
\* minus the number of connected components, also when edges name other ids
\* (the components counted over every id mentioned, or over the node list alone).
C10_CountFromNodeList ==
    KDone =>
        \/ Len(mstEdges) = Cardinality(nodes)
                             - Cardinality(Components(edges, DOMAIN edges))
        \/ Len(mstEdges) = Cardinality(nodes)
                             - Cardinality({ ComponentOf(edges, DOMAIN edges, x) : x \in nodes })

\* C10 amended: the number of returned edges is the number of distinct ids the call
\* mentions (in the node list or as an endpoint of an edge) minus the number of
\* connected components of the graph over those ids.
C10_CountFromMentionedIds ==
    KDone => Len(mstEdges) = Cardinality(MentionedIds)
                               - Cardinality(Components(edges, DOMAIN edges))

\* a call with an edge endpoint outside the node list, a rejected edge, and a
\* forest of two edges
C10_Witness ==
    /\ KDone
    /\ MentionedIds # nodes
    /\ SomeEdgeRejected
    /\ Len(mstEdges) = 2

----------------------------------------------------------------------------
(* Reference notions for the UnionFind claims *)

\* the UnionFind as it stands
TheUnionFind == [parent |-> parent, rank |-> rank]

\* the id reached from x after k steps along the parent pointers p
RECURSIVE Ancestor(_, _, _)
Ancestor(p, x, k) == IF k = 0 THEN x ELSE Ancestor(p, p[x], k - 1)

\* every pointer leads to a registered id, and the only cycles are roots pointing
\* to themselves: as many steps as there are ids always end in such a root
PointersAcyclic ==
    /\ \A x \in DOMAIN parent : parent[x] \in DOMAIN parent
    /\ \A x \in DOMAIN parent :
          \E r \in {Ancestor(parent, x, Cardinality(DOMAIN parent))} : parent[r] = r

\* the ids linked to the ids of S by a chain of union calls
RECURSIVE LinkGrow(_)
LinkGrow(S) ==
    LET more == S \cup UNION { pr \in unions : pr \cap S # {} }
    IN IF more = S THEN S ELSE LinkGrow(more)

Linked(a, b) == b \in LinkGrow({a})

\* find(a) === find(b), the two calls made one after the other
SameFind(a, b) ==
    \E fa \in {UFFind(TheUnionFind, a)} : fa.root = UFFind(fa.uf, b).root

\* some id is two pointers away from its root
DeepPath ==
    \E x \in DOMAIN parent : parent[x] # x /\ parent[parent[x]] # parent[x]

----------------------------------------------------------------------------
(* Claims about UnionFind *)

\* C12: after any sequence of union and find calls, the parent pointers form no
\* cycle other than a root pointing to itself (so find terminates for every id), and
\* find(a) = find(b) exactly when a and b are linked by a chain of union calls.
C12_FindDecidesLinked ==
    /\ PointersAcyclic
    /\ \A a \in NodeIds : \A b \in NodeIds : SameFind(a, b) <=> Linked(a, b)

\* a UnionFind where a union of two trees left an id two pointers below its root
C12_Witness ==
    /\ ufReturn.op = "union"
    /\ ufReturn.joined
    /\ DeepPath

\* a step that is a call of find on an id the UnionFind has not seen: the id becomes
\* a root of rank 0, nothing else changes, and the id is returned
FindRegistersUnseen ==
    (ufReturn'.op = "find" /\ ufReturn'.a \notin DOMAIN parent) =>
        /\ parent' = Put(parent, ufReturn'.a, ufReturn'.a)
        /\ rank' = Put(rank, ufReturn'.a, 0)
        /\ ufReturn'.root = ufReturn'.a

\* a step of kruskal's loop over an edge with an endpoint outside the node list: both
\* endpoints are registered afterwards, and the edge is accepted exactly when the
\* edges accepted so far do not connect its endpoints
OutsideEdgeHandled ==
    (/\ kpc = "loop"
     /\ edgeIdx' = edgeIdx + 1
     /\ {sortedEdges[edgeIdx].u, sortedEdges[edgeIdx].v} \ nodes # {}) =>
        /\ {sortedEdges[edgeIdx].u, sortedEdges[edgeIdx].v} \subseteq DOMAIN parent'
        /\ IF sortedEdges[edgeIdx].v
                \in Grow(mstEdges, DOMAIN mstEdges, {sortedEdges[edgeIdx].u})
           THEN mstEdges' = mstEdges
           ELSE mstEdges' = Append(mstEdges, sortedEdges[edgeIdx])

\* C15: find on an id that was not in the constructor's node list registers it as
\* its own singleton (parent itself, rank 0) and returns it, and kruskal accepts an
\* edge with an endpoint outside the node list exactly when it joins two components.
C15_UnseenIdsRegistered == [][FindRegistersUnseen /\ OutsideEdgeHandled]_vars

\* find has just been called on an id outside the constructor's list, after a union
\* of two other ids
C15_Witness ==
    /\ ufReturn.op = "find"
    /\ ufReturn.a \notin nodes
    /\ ufReturn.root = ufReturn.a
    /\ rank[ufReturn.a] = 0
    /\ unions # {}
    /\ ufReturn.a \notin UNION unions

\* the UnionFind after the step
TheUnionFindAfter == [parent |-> parent', rank |-> rank']

\* find(a) === find(b) on the UnionFind uf
SameFindIn(uf, a, b) ==
    \E fa \in {UFFind(uf, a)} : fa.root = UFFind(fa.uf, b).root

\* a call of find changes the representative find returns for no id
FindKeepsRepresentatives ==
    ufReturn'.op = "find" =>
        /\ ufReturn'.root = UFFind(TheUnionFind, ufReturn'.a).root
        /\ \A x \in NodeIds :
              UFFind(TheUnionFindAfter, x).root = UFFind(TheUnionFind, x).root

\* a call of union on two ids that are already joined (the same id twice included)
\* returns false and joins or separates no two ids
UnionOfJoinedIsNoOp ==
    (ufReturn'.op = "union" /\ SameFindIn(TheUnionFind, ufReturn'.a, ufReturn'.b)) =>
        /\ ~ufReturn'.joined
        /\ \A x \in NodeIds : \A y \in NodeIds :
              SameFindIn(TheUnionFindAfter, x, y) <=> SameFindIn(TheUnionFind, x, y)

\* C16: find calls with no union in between return the same representative for an
\* id; union(a, a), and union(a, b) for a and b already joined, returns false and
\* leaves the partition into components unchanged.
C16_FindAndUnionIdempotent == [][FindKeepsRepresentatives /\ UnionOfJoinedIsNoOp]_vars

\* union has just returned false for two different ids that an earlier chain of
\* unions had joined in a tree two pointers deep
C16_Witness ==
    /\ ufReturn.op = "union"
    /\ ~ufReturn.joined
    /\ ufReturn.a # ufReturn.b
    /\ Cardinality(unions) >= 3
    /\ DeepPath

\* the root above x along the pointers p; an id not registered yet is a component
\* of its own
RootIn(p, x) == IF x \in DOMAIN p THEN Ancestor(p, x, Cardinality(DOMAIN p)) ELSE x

\* the ids on the path from x up to its root
PathIn(p, x) ==
    IF x \in DOMAIN p THEN { Ancestor(p, x, k) : k \in 0..Cardinality(DOMAIN p) } ELSE {x}

\* the rank of x; 0 is what find gives an id it registers
RankIn(rk, x) == IF x \in DOMAIN rk THEN rk[x] ELSE 0

\* C26: when find(x) returns the root r, the parent pointer of x and of every id
\* on the former path from x to r is r, and every id has the root it had before the
\* call (an id not seen before being a component of its own): the partition into
\* components and their roots are unchanged.
C26_FindCompressesPath ==
    [][ufReturn'.op = "find" =>
          \E x \in {ufReturn'.a} : \E r \in {ufReturn'.root} :
             /\ r = RootIn(parent, x)
             /\ \A y \in PathIn(parent, x) : parent'[y] = r
             /\ \A y \in NodeIds : RootIn(parent', y) = RootIn(parent, y)
             /\ \A y \in DOMAIN parent' : (parent'[y] = y) <=> (RootIn(parent, y) = y)]_vars

\* find has just returned the root of a tree of rank 2, asked for an id that is not
\* the root, and every pointer of the tree leads straight to the root
C26_Witness ==
    /\ ufReturn.op = "find"
    /\ ufReturn.root # ufReturn.a
    /\ rank[ufReturn.root] = 2
    /\ parent[ufReturn.a] = ufReturn.root
    /\ ~DeepPath

\* the ids whose root is r
IdsUnder(r) == { x \in DOMAIN parent : RootIn(parent, x) = r }

RECURSIVE TwoToThe(_)
TwoToThe(k) == IF k = 0 THEN 1 ELSE 2 * TwoToThe(k - 1)

\* a root of rank k heads a component of at least 2^k ids
RankBoundsSize ==
    \A r \in DOMAIN parent :
       parent[r] = r => Cardinality(IdsUnder(r)) >= TwoToThe(rank[r])

\* no rank changes, except that of the ids in S
RanksKeptOutside(S) ==
    \A y \in DOMAIN rank' \ S : rank'[y] = RankIn(rank, y)

\* a call of union(a, b): the root of lower rank goes under the other and no rank
\* changes; on a tie b's root goes under a's root, whose rank grows by one; the
\* call returns true exactly when the roots differed
UnionByRank ==
    ufReturn'.op = "union" =>
        \E rootA \in {RootIn(parent, ufReturn'.a)} :
        \E rootB \in {RootIn(parent, ufReturn'.b)} :
           /\ ufReturn'.joined <=> rootA # rootB
           /\ rootA = rootB => RanksKeptOutside({})
           /\ rootA # rootB =>
                 IF RankIn(rank, rootA) > RankIn(rank, rootB)
                 THEN /\ parent'[rootB] = rootA
                      /\ parent'[rootA] = rootA
                      /\ RanksKeptOutside({})
                 ELSE IF RankIn(rank, rootA) < RankIn(rank, rootB)
                 THEN /\ parent'[rootA] = rootB
                      /\ parent'[rootB] = rootB
                      /\ RanksKeptOutside({})
                 ELSE /\ parent'[rootB] = rootA
                      /\ parent'[rootA] = rootA
                      /\ rank'[rootA] = RankIn(rank, rootA) + 1
                      /\ RanksKeptOutside({rootA})

\* C27: union(a, b) on two different roots attaches the root of lower rank under
\* the root of higher rank and changes no rank; on equal ranks it attaches b's root
\* under a's root and raises that root's rank by one; it returns true exactly when
\* the roots differed; and a root of rank k always heads at least 2^k ids.
C27_UnionByRank == [][UnionByRank]_vars /\ []RankBoundsSize

\* union has just joined two trees of rank 1 into one of rank 2 holding four ids
C27_Witness ==
    /\ ufReturn.op = "union"
    /\ ufReturn.joined
    /\ \E r \in DOMAIN parent :
          /\ parent[r] = r
          /\ rank[r] = 2
          /\ Cardinality(IdsUnder(r)) = 4
          /\ RootIn(parent, ufReturn.a) = r

----------------------------------------------------------------------------
(* Claims about buildCostMatrix and sumNaiveAssignments *)

BuildReturned == "buildCostMatrix" \in called

SumReturned == "sumNaiveAssignments" \in called

\* C17: for m drivers and n passengers buildCostMatrix returns m rows of n cells and
\* m*n pairs in row-major order: pair number i*n + j (counted from 0) carries the id
\* of driver i, the id of passenger j and the cost matrix[i][j].
C17_ShapeAndRowMajorPairs ==
    BuildReturned =>
        /\ Len(built.matrix) = Len(drivers)
        /\ \A i \in DOMAIN built.matrix : Len(built.matrix[i]) = Len(passengers)
        /\ Len(built.pairs) = Len(drivers) * Len(passengers)
        /\ \A i \in 0..(Len(drivers) - 1) : \A j \in 0..(Len(passengers) - 1) :
              built.pairs[i * Len(passengers) + j + 1] =
                  [driverId |-> drivers[i + 1].id,
                   passengerId |-> passengers[j + 1].id,
                   cost |-> built.matrix[i + 1][j + 1]]

\* a 2 x 2 matrix whose two off-diagonal cells differ
C17_Witness ==
    /\ BuildReturned
    /\ Len(drivers) = 2
    /\ Len(passengers) = 2
    /\ built.matrix[1][2] # built.matrix[2][1]
    /\ built.pairs[2].cost = built.matrix[1][2]

\* the sum of the diagonal cells matrix[i][i] of the first k rows
RECURSIVE DiagonalSum(_, _)
DiagonalSum(mx, k) == IF k = 0 THEN 0 ELSE DiagonalSum(mx, k - 1) + mx[k][k]

\* the two functions were called with the same metric
SameMetric == MethodOf(options) = MethodOf([method |-> method, timePerKm |-> <<>>])

\* C18: sumNaiveAssignments returns the sum of the diagonal cells of the matrix that
\* buildCostMatrix builds from the same drivers, passengers and metric, for every
\* time factor passed to buildCostMatrix.
C18_NaiveIsDiagonalSum ==
    (BuildReturned /\ SumReturned /\ SameMetric) =>
        naiveTotal = DiagonalSum(built.matrix, Min2(Len(drivers), Len(passengers)))

\* the caller handed over no driver or no passenger
NoDriverOrNoPassenger == "caller" \in called /\ (drivers = <<>> \/ passengers = <<>>)

\* C20: empty inputs give empty or zero results and no failure: buildCostMatrix with
\* no drivers or no passengers returns a matrix without a cell and no pairs,
\* sumNaiveAssignments returns 0, and kruskal with no edges returns no edges and
\* totalWeight 0.
C20_EmptyInputsGiveEmptyResults ==
    /\ (NoDriverOrNoPassenger /\ ~BuildReturned) => ENABLED CallBuildCostMatrix
    /\ (NoDriverOrNoPassenger /\ ~SumReturned) => ENABLED CallSumNaiveAssignments
    /\ (kpc \in {"entry", "loop"} /\ edges = <<>>) => ENABLED KNext
    /\ (NoDriverOrNoPassenger /\ BuildReturned) =>
          /\ built.pairs = <<>>
          /\ \A i \in DOMAIN built.matrix : built.matrix[i] = <<>>
    /\ (NoDriverOrNoPassenger /\ SumReturned) => naiveTotal = 0
    /\ (KDone /\ edges = <<>>) => mstEdges = <<>> /\ totalWeight = 0

\* both cost functions have returned for two drivers and no passenger: the matrix
\* has two rows without a cell
C20_Witness ==
    /\ BuildReturned
    /\ SumReturned
    /\ Len(drivers) = 2
    /\ passengers = <<>>
    /\ built.matrix = << <<>>, <<>> >>

----------------------------------------------------------------------------
(* Claims about the App effect, ControlPanel and useDebounce *)

\* the step is a run of the second effect on a published result
EffectSeesNewResult == effectDeps' # effectDeps /\ useGraphResult.lastUpdated > 0

\* C28: each time useGraph publishes a result with a new positive lastUpdated,
\* the effect leaves the AppContext state with the assignments, the MST edges and
\* the three totals of that result.
C28_EffectCopiesResults ==
    [][EffectSeesNewResult =>
          /\ appState'.assignments = useGraphResult.assignments
          /\ appState'.mstEdges = useGraphResult.mstEdges
          /\ appState'.totalNaiveTime = useGraphResult.totalNaiveTime
          /\ appState'.totalAssignedTime = useGraphResult.totalAssignedTime
          /\ appState'.totalMSTWeight = useGraphResult.totalMSTWeight]_vars

\* C29: a click on increment of a slider below its own maximum raises the value
\* by exactly 1 and commits it, whatever the other slider shows; a committed value
\* never exceeds the slider's own maximum, and decrement commits no value below 1.
C29_IncrementRaisesByOne ==
    /\ (lastEvent.op = "increment" /\ lastEvent.before < OwnMax(lastEvent.slider)) =>
          lastEvent.committed = lastEvent.before + 1
    /\ lastEvent.op = "increment" => lastEvent.committed <= OwnMax(lastEvent.slider)
    /\ lastEvent.op = "decrement" => lastEvent.committed >= 1

\* the arguments of the render differ from those of the render before
InputChanges == <<value', delay'>> # <<value, delay>>

\* C30: the value useDebounce returns changes only to the input value, and only
\* when that has stayed unchanged for the delay; a change of value or delay cancels
\* the pending timer, so that at most one timer is pending; and once the input stops
\* changing the returned value eventually equals it for good.
C30_DebounceSettles ==
    /\ [][debouncedValue' # debouncedValue =>
             debouncedValue' = value /\ sinceChange >= delay]_vars
    /\ [][InputChanges => timers' = {SetTimer(value', delay')}]_vars
    /\ [](Cardinality(timers) <= 1)
    /\ <>[](debouncedValue = value)

\* the input changed three times, the last time to another value and the longest
\* delay; the timer of the last render has run and the hook returns that value
C30_Witness ==
    /\ tpc = "mounted"
    /\ changes = MaxChanges
    /\ delay = MaxDelay
    /\ timers = {}
    /\ debouncedValue = value
    /\ sinceChange >= delay

----------------------------------------------------------------------------
(* Specifications *)

\* one call of hungarian
InitHungarian == HInit /\ DIdle /\ KIdle /\ UIdle /\ CIdle /\ RIdle

SpecHungarian == InitHungarian /\ [][HNext]_vars

\* hungarian has a next step in every state before its return, and in no other
HNextEnabledUntilDone == (hpc # "done") <=> ENABLED <<HNext>>_vars

\* the call is synchronous and runs to completion: no step of it is postponed for
\* ever. This is WF_vars(HNext), that is []<>~ENABLED <<HNext>>_vars \/ []<><<HNext>>_vars,
\* with ENABLED <<HNext>>_vars written out as hpc # "done" (HNextEnabledUntilDone)
FairHungarian == SpecHungarian /\ (<>[](hpc = "done") \/ []<><<HNext>>_vars)

\* one call of dijkstra
InitDijkstra == HIdle /\ DInit /\ KIdle /\ UIdle /\ CIdle /\ RIdle

SpecDijkstra == InitDijkstra /\ [][DNext]_vars

\* dijkstra has a next step in every state before its return, and in no other
DNextEnabledUntilDone == (dpc # "done") <=> ENABLED <<DNext>>_vars

\* the call is synchronous and runs to completion: WF_vars(DNext), with
\* ENABLED <<DNext>>_vars written out as dpc # "done" (DNextEnabledUntilDone)
FairDijkstra == SpecDijkstra /\ (<>[](dpc = "done") \/ []<><<DNext>>_vars)

\* one call of kruskal
InitKruskal == HIdle /\ DIdle /\ KInit /\ UIdle /\ CIdle /\ RIdle

SpecKruskal == InitKruskal /\ [][KNext]_vars

\* a UnionFind of its own and any calls on it
InitUnionFind == HIdle /\ DIdle /\ UInit /\ CIdle /\ RIdle

SpecUnionFind == InitUnionFind /\ [][UNext]_vars

\* the UnionFind inside kruskal and on its own
InitDisjointSets == InitKruskal \/ InitUnionFind

SpecDisjointSets == InitDisjointSets /\ [][KNext \/ UNext]_vars

\* the two cost functions called on the same nodes
InitCost == HIdle /\ DIdle /\ KIdle /\ UIdle /\ CInit /\ RIdle

SpecCost == InitCost /\ [][CNext]_vars

\* the functions that take collections which may be empty
InitCostAndKruskal == InitCost \/ InitKruskal

SpecCostAndKruskal == InitCostAndKruskal /\ [][CNext \/ KNext]_vars

\* the engine is not running
EIdle == HIdle /\ DIdle /\ KIdle /\ UIdle /\ CIdle

\* AppContent mounted inside AppProvider
InitApp == EIdle /\ AInit /\ PIdle /\ TIdle

SpecApp == InitApp /\ [][ANext]_vars

\* a ControlPanel and its parent
InitControlPanel == EIdle /\ AIdle /\ PInit /\ TIdle

SpecControlPanel == InitControlPanel /\ [][PNext]_vars

\* a component that calls useDebounce
InitDebounce == EIdle /\ AIdle /\ PIdle /\ TInit

SpecDebounce == InitDebounce /\ [][TNext]_vars

\* time goes on, and a timer that is due does run
FairDebounce == SpecDebounce /\ WF_vars(TTick) /\ WF_vars(TTimeout)

Init ==
    \/ InitHungarian
    \/ InitDijkstra
    \/ InitKruskal
    \/ InitUnionFind
    \/ InitCost
    \/ InitApp
    \/ InitControlPanel
    \/ InitDebounce

Next == HNext \/ DNext \/ KNext \/ UNext \/ CNext \/ ANext \/ PNext \/ TNext

\* every entry point of the engine and of the React side
Spec == Init /\ [][Next]_vars

=============================================================================
